---------------------------- MODULE Spec2Model ----------------------------
(***************************************************************************)
(* GoJSONNLP: the JSON-NLP document model and its codec.                   *)
(*                                                                         *)
(* The repository holds four revisions of one Go package, jsonnlp:         *)
(*   0.2   src/unnamed/part_000 lines 193-350  (loadJSON, getJSON)         *)
(*   0.4   src/unnamed/part_000 lines 1-191    (loadJSON, getJSON)         *)
(*   0.8   src/jsonnlp.go                      (FromString, FromFile,      *)
(*                                              GetJSON)                   *)
(*   0.8.3 src/unnamed/part_001                (FromString, FromFile,      *)
(*                                              GetJSON)                   *)
(* Each revision is a set of struct declarations whose `json:"..."` tags   *)
(* are the whole wire schema, and two or three functions that hand the     *)
(* structs to encoding/json.  The model keeps the struct declarations as   *)
(* field tables, one per struct and revision, and models json.Marshal and  *)
(* json.Unmarshal by what they do with such tables: tag lookup, omitempty, *)
(* fields hidden by a duplicated tag, merging into the value that is       *)
(* already there, and the errors the functions of the package discard.     *)
(***************************************************************************)
EXTENDS Integers, Sequences, FiniteSets, TLC

(***************************************************************************)
(* Go values.                                                              *)
(*   int      an integer                                                   *)
(*   string   a string; BadUTF8 stands for a string holding a byte         *)
(*            sequence that is not valid UTF-8, Replacement for the string *)
(*            in which that sequence is replaced by U+FFFD                 *)
(*   bool     a boolean                                                    *)
(*   float64  [nan, i, f]: not-a-number, or the decimal i.f (f in          *)
(*            hundredths, so Float(0, 87) is 0.87)                         *)
(*   []T      [nil, e]: the nil slice, or an allocated slice with the      *)
(*            elements e                                                   *)
(*   struct   a function from the Go field names to the field values       *)
(***************************************************************************)
Float(i, f) == [nan |-> FALSE, i |-> i, f |-> f]

NaN == [nan |-> TRUE, i |-> 0, f |-> 0]

NilSlice == [nil |-> TRUE, e |-> << >>]

MkSlice(elems) == [nil |-> FALSE, e |-> elems]

BadUTF8 == "<0xFF>"

Replacement == "<U+FFFD>"

(***************************************************************************)
(* JSON values, as encoding/json scans them.  An object keeps its members  *)
(* in the order of the text, as a sequence of [k, v], so that a key        *)
(* written twice is two members.  A number is the decimal i.f .            *)
(***************************************************************************)
JNull == [j |-> "null"]

JBool(b) == [j |-> "bool", b |-> b]

JNum(i, f) == [j |-> "num", i |-> i, f |-> f]

JStr(s) == [j |-> "str", s |-> s]

JArr(a) == [j |-> "arr", a |-> a]

JObj(m) == [j |-> "obj", m |-> m]

Member(k, v) == [k |-> k, v |-> v]

\* What the encoder leaves in place of a value it cannot write (a float64
\* that is NaN or infinite): json.Marshal then returns UnsupportedValueError.
JUnsupported == [j |-> "unsupported"]

(***************************************************************************)
(* A text handed to json.Unmarshal or returned by json.Marshal: either a   *)
(* text that is no JSON value at all (the empty text among them), or the   *)
(* text of one JSON value.                                                 *)
(***************************************************************************)
BadText == [valid |-> FALSE]

Text(v) == [valid |-> TRUE, v |-> v]

(***************************************************************************)
(* One struct field: its Go name, the key of its json tag, whether the tag *)
(* says omitempty, and its type: kind is one of int, string, bool, float,  *)
(* ints ([]int), struct (of names the struct) and list ([]of).             *)
(***************************************************************************)
Fld(name, key, omit, kind, of) ==
  [name |-> name, key |-> key, omit |-> omit, kind |-> kind, of |-> of]

\* unnamed/part_000 lines 209-213: type Meta struct (revision 0.2)
V02_Meta ==
  << Fld("DCConformsTo", "DC.conformsTo", FALSE, "string", ""),
     Fld("DCCreated", "DC.created", FALSE, "string", ""),
     Fld("DCDate", "DC.date", FALSE, "string", "") >>

\* unnamed/part_000 lines 215-221: type MetaDocument struct (revision 0.2)
V02_MetaDocument ==
  << Fld("DCConformsTo", "DC.conformsTo", FALSE, "string", ""),
     Fld("DCCreated", "DC.created", FALSE, "string", ""),
     Fld("DCDate", "DC.date", FALSE, "string", ""),
     Fld("DCSource", "DC.source", FALSE, "string", ""),
     Fld("DCLanguage", "DC.language", FALSE, "string", "") >>

\* unnamed/part_000 lines 223-246: type TokenFeatures struct (revision 0.2)
V02_TokenFeatures ==
  << Fld("Overt", "overt", TRUE, "bool", ""),
     Fld("Stop", "stop", TRUE, "bool", ""),
     Fld("Alpha", "alpha", TRUE, "bool", ""),
     Fld("Number", "number", TRUE, "int", ""),
     Fld("Gender", "gender", TRUE, "string", ""),
     Fld("Person", "person", TRUE, "int", ""),
     Fld("Tense", "tense", TRUE, "string", ""),
     Fld("Perfect", "perfect", TRUE, "bool", ""),
     Fld("Continuous", "continuous", TRUE, "bool", ""),
     Fld("Case", "case", TRUE, "string", ""),
     Fld("Human", "human", TRUE, "bool", ""),
     Fld("Animate", "animate", TRUE, "bool", ""),
     Fld("Negated", "negated", TRUE, "bool", ""),
     Fld("Countable", "countable", TRUE, "bool", ""),
     Fld("Factive", "factive", TRUE, "bool", ""),
     Fld("Counterfactive", "counterfactive", TRUE, "bool", ""),
     Fld("Irregular", "irregular", TRUE, "bool", ""),
     Fld("PhrasalVerb", "phrasalVerb", TRUE, "bool", ""),
     Fld("Mood", "mood", TRUE, "string", ""),
     Fld("Foreign", "foreign", TRUE, "bool", ""),
     Fld("SpaceAfter", "spaceAfter", TRUE, "bool", "") >>

\* unnamed/part_000 lines 252-271: type TokenList struct (revision 0.2)
V02_TokenList ==
  << Fld("ID", "id", FALSE, "int", ""),
     Fld("SentenceID", "sentence_id", FALSE, "int", ""),
     Fld("Text", "text", FALSE, "string", ""),
     Fld("Lemma", "lemma", FALSE, "string", ""),
     Fld("XPoS", "xpos", TRUE, "string", ""),
     Fld("XPoSProbability", "xpos_prob", TRUE, "float", ""),
     Fld("UPoS", "upos", TRUE, "string", ""),
     Fld("UPoSProbability", "upos_prob", TRUE, "float", ""),
     Fld("EntityIOB", "entity_iob", TRUE, "string", ""),
     Fld("CharacterOffsetBegin", "characterOffsetBegin", TRUE, "int", ""),
     Fld("CharacterOffsetEnd", "characterOffsetEnd", TRUE, "int", ""),
     Fld("PropID", "propID", TRUE, "string", ""),
     Fld("PropIDProbability", "propIDProbability", TRUE, "string", ""),
     Fld("Lang", "lang", TRUE, "string", ""),
     Fld("Features", "features", TRUE, "struct", "TokenFeatures"),
     Fld("Shape", "shape", TRUE, "string", ""),
     Fld("Entity", "entity", TRUE, "string", "") >>

\* unnamed/part_000 lines 274-279: type Sentence struct (revision 0.2)
V02_Sentence ==
  << Fld("ID", "id", FALSE, "int", ""),
     Fld("TokenFrom", "tokenFrom", TRUE, "int", ""),
     Fld("TokenTo", "tokenTo", TRUE, "int", ""),
     Fld("Tokens", "tokens", TRUE, "ints", "") >>

\* unnamed/part_000 lines 281-285: type Dependency struct (revision 0.2)
V02_Dependency ==
  << Fld("Label", "lab", FALSE, "string", ""),
     Fld("Governor", "gov", FALSE, "int", ""),
     Fld("Dependent", "dep", FALSE, "int", "") >>

\* unnamed/part_000 lines 288-292: type DependencyTree struct (revision 0.2)
V02_DependencyTree ==
  << Fld("SentenceID", "sentenceID", FALSE, "int", ""),
     Fld("Style", "style", TRUE, "string", ""),
     Fld("Dependencies", "dependencies", TRUE, "list", "Dependency") >>

\* unnamed/part_000 lines 294-297: type CoreferenceRepresentantive struct (revision 0.2)
V02_CoreferenceRepresentantive ==
  << Fld("Tokens", "tokens", FALSE, "ints", ""),
     Fld("Head", "head", TRUE, "int", "") >>

\* unnamed/part_000 lines 299-302: type CoreferenceReferents struct (revision 0.2)
V02_CoreferenceReferents ==
  << Fld("Tokens", "tokens", FALSE, "ints", ""),
     Fld("Head", "head", TRUE, "int", "") >>

\* unnamed/part_000 lines 304-308: type Coreference struct (revision 0.2)
V02_Coreference ==
  << Fld("ID", "id", FALSE, "int", ""),
     Fld("Representartive", "representative", FALSE, "struct", "CoreferenceRepresentantive"),
     Fld("Referents", "referents", FALSE, "list", "CoreferenceReferents") >>

\* unnamed/part_000 lines 310-315: type ConstituentParse struct (revision 0.2)
V02_ConstituentParse ==
  << Fld("SentenceID", "sentenceId", FALSE, "int", ""),
     Fld("Type", "type", TRUE, "string", ""),
     Fld("LabeledBracketing", "labeledBracketing", FALSE, "string", ""),
     Fld("Probability", "prob", TRUE, "float", "") >>

\* unnamed/part_000 lines 317-323: type Expression struct (revision 0.2)
V02_Expression ==
  << Fld("ID", "id", FALSE, "int", ""),
     Fld("Type", "type", TRUE, "string", ""),
     Fld("Head", "head", TRUE, "int", ""),
     Fld("Dependency", "dependency", TRUE, "string", ""),
     Fld("Tokens", "tokens", FALSE, "ints", "") >>

\* unnamed/part_000 lines 325-334: type Document struct (revision 0.2)
V02_Document ==
  << Fld("MetaDocument", "meta", FALSE, "struct", "MetaDocument"),
     Fld("ID", "id", FALSE, "int", ""),
     Fld("TokenList", "tokenList", TRUE, "list", "TokenList"),
     Fld("Sentences", "sentences", TRUE, "list", "Sentence"),
     Fld("DependencyTrees", "dependencyTrees", TRUE, "list", "DependencyTree"),
     Fld("Coreferences", "coreferences", TRUE, "list", "Coreference"),
     Fld("Constituents", "constituents", TRUE, "list", "ConstituentParse"),
     Fld("Expressions", "expressions", TRUE, "list", "Expression") >>

\* unnamed/part_000 lines 336-339: type JSONNLP struct (revision 0.2)
V02_JSONNLP ==
  << Fld("MetaData", "meta", TRUE, "struct", "Meta"),
     Fld("Documents", "documents", TRUE, "list", "Document") >>

\* The record types revision 0.2 declares, by Go type name.
V02_Types ==
  ("Meta" :> V02_Meta) @@ ("MetaDocument" :> V02_MetaDocument) @@ ("TokenFeatures" :> V02_TokenFeatures) @@ ("TokenList" :> V02_TokenList) @@ ("Sentence" :> V02_Sentence) @@ ("Dependency" :> V02_Dependency) @@ ("DependencyTree" :> V02_DependencyTree) @@ ("CoreferenceRepresentantive" :> V02_CoreferenceRepresentantive) @@ ("CoreferenceReferents" :> V02_CoreferenceReferents) @@ ("Coreference" :> V02_Coreference) @@ ("ConstituentParse" :> V02_ConstituentParse) @@ ("Expression" :> V02_Expression) @@ ("Document" :> V02_Document) @@ ("JSONNLP" :> V02_JSONNLP)

\* unnamed/part_000 lines 19-30: type Meta struct (revision 0.4)
V04_Meta ==
  << Fld("DCConformsTo", "DC.conformsTo", FALSE, "string", ""),
     Fld("DCCreated", "DC.created", FALSE, "string", ""),
     Fld("DCDate", "DC.date", TRUE, "string", ""),
     Fld("DCSource", "DC.source", TRUE, "string", ""),
     Fld("DCLanguage", "DC.language", TRUE, "string", ""),
     Fld("DCCreator", "DC.creator", TRUE, "string", ""),
     Fld("DCPublisher", "DC.publisher", TRUE, "string", ""),
     Fld("DCTitle", "DC.title", TRUE, "string", ""),
     Fld("DCDescription", "DC.description", TRUE, "string", ""),
     Fld("DCIdentifier", "DC.identifier", TRUE, "string", "") >>

\* unnamed/part_000 lines 32-55: type TokenFeatures struct (revision 0.4)
V04_TokenFeatures ==
  << Fld("Overt", "overt", TRUE, "bool", ""),
     Fld("Stop", "stop", TRUE, "bool", ""),
     Fld("Alpha", "alpha", TRUE, "bool", ""),
     Fld("Number", "number", TRUE, "int", ""),
     Fld("Gender", "gender", TRUE, "string", ""),
     Fld("Person", "person", TRUE, "int", ""),
     Fld("Tense", "tense", TRUE, "string", ""),
     Fld("Perfect", "perfect", TRUE, "bool", ""),
     Fld("Continuous", "continuous", TRUE, "bool", ""),
     Fld("Case", "case", TRUE, "string", ""),
     Fld("Human", "human", TRUE, "bool", ""),
     Fld("Animate", "animate", TRUE, "bool", ""),
     Fld("Negated", "negated", TRUE, "bool", ""),
     Fld("Countable", "countable", TRUE, "bool", ""),
     Fld("Factive", "factive", TRUE, "bool", ""),
     Fld("Counterfactive", "counterfactive", TRUE, "bool", ""),
     Fld("Irregular", "irregular", TRUE, "bool", ""),
     Fld("PhrasalVerb", "phrasalVerb", TRUE, "bool", ""),
     Fld("Mood", "mood", TRUE, "string", ""),
     Fld("Foreign", "foreign", TRUE, "bool", ""),
     Fld("SpaceAfter", "spaceAfter", TRUE, "bool", "") >>

\* unnamed/part_000 lines 57-81: type TokenList struct (revision 0.4)
V04_TokenList ==
  << Fld("ID", "id", FALSE, "int", ""),
     Fld("SentenceID", "sentence_id", FALSE, "int", ""),
     Fld("Text", "text", FALSE, "string", ""),
     Fld("Lemma", "lemma", TRUE, "string", ""),
     Fld("XPoS", "xpos", TRUE, "string", ""),
     Fld("XPoSProbability", "xpos_prob", TRUE, "float", ""),
     Fld("UPoS", "upos", TRUE, "string", ""),
     Fld("UPoSProbability", "upos_prob", TRUE, "float", ""),
     Fld("EntityIOB", "entity_iob", TRUE, "string", ""),
     Fld("CharacterOffsetBegin", "characterOffsetBegin", TRUE, "int", ""),
     Fld("CharacterOffsetEnd", "characterOffsetEnd", TRUE, "int", ""),
     Fld("PropID", "propID", TRUE, "string", ""),
     Fld("PropIDProbability", "propIDProbability", TRUE, "float", ""),
     Fld("FrameID", "frameID", TRUE, "int", ""),
     Fld("FrameIDProbability", "frameID", TRUE, "float", ""),
     Fld("WordNetID", "wordNetID", TRUE, "int", ""),
     Fld("WordNetIDProbability", "wordNetID", TRUE, "float", ""),
     Fld("VerbNetID", "verbNetID", TRUE, "int", ""),
     Fld("VerbNetIDProbability", "verbNetID", TRUE, "float", ""),
     Fld("Lang", "lang", TRUE, "string", ""),
     Fld("Features", "features", TRUE, "struct", "TokenFeatures"),
     Fld("Shape", "shape", TRUE, "string", ""),
     Fld("Entity", "entity", TRUE, "string", "") >>

\* unnamed/part_000 lines 84-91: type Sentence struct (revision 0.4)
V04_Sentence ==
  << Fld("ID", "id", FALSE, "int", ""),
     Fld("TokenFrom", "tokenFrom", TRUE, "int", ""),
     Fld("TokenTo", "tokenTo", TRUE, "int", ""),
     Fld("Tokens", "tokens", TRUE, "ints", ""),
     Fld("Clauses", "clauses", TRUE, "ints", ""),
     Fld("Type", "type", TRUE, "string", "") >>

\* unnamed/part_000 lines 93-105: type Clause struct (revision 0.4)
V04_Clause ==
  << Fld("ID", "id", FALSE, "int", ""),
     Fld("TokenFrom", "tokenFrom", TRUE, "int", ""),
     Fld("TokenTo", "tokenTo", TRUE, "int", ""),
     Fld("Tokens", "tokens", TRUE, "ints", ""),
     Fld("Main", "main", TRUE, "bool", ""),
     Fld("Governor", "gov", TRUE, "int", ""),
     Fld("Root", "root", TRUE, "int", ""),
     Fld("Negation", "neg", TRUE, "bool", ""),
     Fld("Tense", "tense", TRUE, "string", ""),
     Fld("Voice", "voice", TRUE, "string", ""),
     Fld("Mood", "mood", TRUE, "string", "") >>

\* unnamed/part_000 lines 107-112: type Dependency struct (revision 0.4)
V04_Dependency ==
  << Fld("Label", "lab", FALSE, "string", ""),
     Fld("Governor", "gov", FALSE, "int", ""),
     Fld("Dependent", "dep", FALSE, "int", ""),
     Fld("Probability", "prob", TRUE, "float", "") >>

\* unnamed/part_000 lines 115-120: type DependencyTree struct (revision 0.4)
V04_DependencyTree ==
  << Fld("SentenceID", "sentenceID", FALSE, "int", ""),
     Fld("Style", "style", TRUE, "string", ""),
     Fld("Dependencies", "dependencies", TRUE, "list", "Dependency"),
     Fld("Probability", "prob", TRUE, "float", "") >>

\* unnamed/part_000 lines 122-125: type CoreferenceRepresentantive struct (revision 0.4)
V04_CoreferenceRepresentantive ==
  << Fld("Tokens", "tokens", FALSE, "ints", ""),
     Fld("Head", "head", TRUE, "int", "") >>

\* unnamed/part_000 lines 127-131: type CoreferenceReferents struct (revision 0.4)
V04_CoreferenceReferents ==
  << Fld("Tokens", "tokens", FALSE, "ints", ""),
     Fld("Head", "head", TRUE, "int", ""),
     Fld("Probability", "prob", TRUE, "float", "") >>

\* unnamed/part_000 lines 133-137: type Coreference struct (revision 0.4)
V04_Coreference ==
  << Fld("ID", "id", FALSE, "int", ""),
     Fld("Representative", "representative", FALSE, "struct", "CoreferenceRepresentantive"),
     Fld("Referents", "referents", FALSE, "list", "CoreferenceReferents") >>

\* unnamed/part_000 lines 139-144: type Scope struct (revision 0.4)
V04_Scope ==
  << Fld("ID", "id", FALSE, "int", ""),
     Fld("Governor", "gov", FALSE, "ints", ""),
     Fld("Dependents", "dep", TRUE, "ints", ""),
     Fld("Terminals", "terminals", TRUE, "ints", "") >>

\* unnamed/part_000 lines 146-152: type ConstituentParse struct (revision 0.4)
V04_ConstituentParse ==
  << Fld("SentenceID", "sentenceId", FALSE, "int", ""),
     Fld("Type", "type", TRUE, "string", ""),
     Fld("LabeledBracketing", "labeledBracketing", FALSE, "string", ""),
     Fld("Probability", "prob", TRUE, "float", ""),
     Fld("Scopes", "scopes", TRUE, "list", "Scope") >>

\* unnamed/part_000 lines 154-163: type Expression struct (revision 0.4)
V04_Expression ==
  << Fld("ID", "id", FALSE, "int", ""),
     Fld("Type", "type", TRUE, "string", ""),
     Fld("Head", "head", TRUE, "int", ""),
     Fld("Dependency", "dependency", TRUE, "string", ""),
     Fld("TokenFrom", "tokenFrom", TRUE, "int", ""),
     Fld("TokenTo", "tokenTo", TRUE, "int", ""),
     Fld("Tokens", "tokens", FALSE, "ints", ""),
     Fld("Probability", "prob", TRUE, "float", "") >>

\* unnamed/part_000 lines 165-175: type Document struct (revision 0.4)
V04_Document ==
  << Fld("MetaDocument", "meta", FALSE, "struct", "Meta"),
     Fld("ID", "id", FALSE, "int", ""),
     Fld("TokenList", "tokenList", TRUE, "list", "TokenList"),
     Fld("Sentences", "sentences", TRUE, "list", "Sentence"),
     Fld("Clauses", "clauses", TRUE, "list", "Clause"),
     Fld("DependencyTrees", "dependencyTrees", TRUE, "list", "DependencyTree"),
     Fld("Coreferences", "coreferences", TRUE, "list", "Coreference"),
     Fld("Constituents", "constituents", TRUE, "list", "ConstituentParse"),
     Fld("Expressions", "expressions", TRUE, "list", "Expression") >>

\* unnamed/part_000 lines 177-180: type JSONNLP struct (revision 0.4)
V04_JSONNLP ==
  << Fld("MetaData", "meta", TRUE, "struct", "Meta"),
     Fld("Documents", "documents", TRUE, "list", "Document") >>

\* The record types revision 0.4 declares, by Go type name.
V04_Types ==
  ("Meta" :> V04_Meta) @@ ("TokenFeatures" :> V04_TokenFeatures) @@ ("TokenList" :> V04_TokenList) @@ ("Sentence" :> V04_Sentence) @@ ("Clause" :> V04_Clause) @@ ("Dependency" :> V04_Dependency) @@ ("DependencyTree" :> V04_DependencyTree) @@ ("CoreferenceRepresentantive" :> V04_CoreferenceRepresentantive) @@ ("CoreferenceReferents" :> V04_CoreferenceReferents) @@ ("Coreference" :> V04_Coreference) @@ ("Scope" :> V04_Scope) @@ ("ConstituentParse" :> V04_ConstituentParse) @@ ("Expression" :> V04_Expression) @@ ("Document" :> V04_Document) @@ ("JSONNLP" :> V04_JSONNLP)

\* jsonnlp.go lines 19-30: type Meta struct (revision 0.8)
V08_Meta ==
  << Fld("DCConformsTo", "DC.conformsTo", FALSE, "string", ""),
     Fld("DCCreated", "DC.created", FALSE, "string", ""),
     Fld("DCDate", "DC.date", TRUE, "string", ""),
     Fld("DCSource", "DC.source", TRUE, "string", ""),
     Fld("DCLanguage", "DC.language", TRUE, "string", ""),
     Fld("DCCreator", "DC.creator", TRUE, "string", ""),
     Fld("DCPublisher", "DC.publisher", TRUE, "string", ""),
     Fld("DCTitle", "DC.title", TRUE, "string", ""),
     Fld("DCDescription", "DC.description", TRUE, "string", ""),
     Fld("DCIdentifier", "DC.identifier", TRUE, "string", "") >>

\* jsonnlp.go lines 32-54: type TokenFeatures struct (revision 0.8)
V08_TokenFeatures ==
  << Fld("Overt", "overt", TRUE, "bool", ""),
     Fld("Stop", "stop", TRUE, "bool", ""),
     Fld("Alpha", "alpha", TRUE, "bool", ""),
     Fld("Number", "number", TRUE, "int", ""),
     Fld("Gender", "gender", TRUE, "string", ""),
     Fld("Person", "person", TRUE, "int", ""),
     Fld("Tense", "tense", TRUE, "string", ""),
     Fld("Perfect", "perfect", TRUE, "bool", ""),
     Fld("Continuous", "continuous", TRUE, "bool", ""),
     Fld("Case", "case", TRUE, "string", ""),
     Fld("Human", "human", TRUE, "bool", ""),
     Fld("Animate", "animate", TRUE, "bool", ""),
     Fld("Negated", "negated", TRUE, "bool", ""),
     Fld("Countable", "countable", TRUE, "bool", ""),
     Fld("Factive", "factive", TRUE, "bool", ""),
     Fld("Counterfactive", "counterfactive", TRUE, "bool", ""),
     Fld("Irregular", "irregular", TRUE, "bool", ""),
     Fld("PhrasalVerb", "phrasalVerb", TRUE, "bool", ""),
     Fld("Mood", "mood", TRUE, "string", ""),
     Fld("Foreign", "foreign", TRUE, "bool", ""),
     Fld("SpaceAfter", "spaceAfter", TRUE, "bool", "") >>

\* jsonnlp.go lines 56-80: type TokenList struct (revision 0.8)
V08_TokenList ==
  << Fld("ID", "id", FALSE, "int", ""),
     Fld("SentenceID", "sentence_id", FALSE, "int", ""),
     Fld("Text", "text", FALSE, "string", ""),
     Fld("Lemma", "lemma", TRUE, "string", ""),
     Fld("XPoS", "xpos", TRUE, "string", ""),
     Fld("XPoSProbability", "xpos_prob", TRUE, "float", ""),
     Fld("UPoS", "upos", TRUE, "string", ""),
     Fld("UPoSProbability", "upos_prob", TRUE, "float", ""),
     Fld("EntityIOB", "entity_iob", TRUE, "string", ""),
     Fld("CharacterOffsetBegin", "characterOffsetBegin", TRUE, "int", ""),
     Fld("CharacterOffsetEnd", "characterOffsetEnd", TRUE, "int", ""),
     Fld("PropID", "propID", TRUE, "string", ""),
     Fld("PropIDProbability", "propIDProbability", TRUE, "float", ""),
     Fld("FrameID", "frameID", TRUE, "int", ""),
     Fld("FrameIDProbability", "frameID", TRUE, "float", ""),
     Fld("WordNetID", "wordNetID", TRUE, "int", ""),
     Fld("WordNetIDProbability", "wordNetID", TRUE, "float", ""),
     Fld("VerbNetID", "verbNetID", TRUE, "int", ""),
     Fld("VerbNetIDProbability", "verbNetID", TRUE, "float", ""),
     Fld("Lang", "lang", TRUE, "string", ""),
     Fld("Features", "features", TRUE, "struct", "TokenFeatures"),
     Fld("Shape", "shape", TRUE, "string", ""),
     Fld("Entity", "entity", TRUE, "string", "") >>

\* jsonnlp.go lines 83-92: type Sentence struct (revision 0.8)
V08_Sentence ==
  << Fld("ID", "id", FALSE, "int", ""),
     Fld("TokenFrom", "tokenFrom", TRUE, "int", ""),
     Fld("TokenTo", "tokenTo", TRUE, "int", ""),
     Fld("Tokens", "tokens", TRUE, "ints", ""),
     Fld("Clauses", "clauses", TRUE, "ints", ""),
     Fld("Type", "type", TRUE, "string", ""),
     Fld("Sentiment", "sentiment", TRUE, "string", ""),
     Fld("SentimentProbability", "sentimentProb", TRUE, "float", "") >>

\* jsonnlp.go lines 94-109: type Clause struct (revision 0.8)
V08_Clause ==
  << Fld("ID", "id", FALSE, "int", ""),
     Fld("SentenceID", "sentenceID", FALSE, "int", ""),
     Fld("TokenFrom", "tokenFrom", TRUE, "int", ""),
     Fld("TokenTo", "tokenTo", TRUE, "int", ""),
     Fld("Tokens", "tokens", TRUE, "ints", ""),
     Fld("Main", "main", TRUE, "bool", ""),
     Fld("Governor", "gov", TRUE, "int", ""),
     Fld("Head", "head", TRUE, "int", ""),
     Fld("Negation", "neg", TRUE, "bool", ""),
     Fld("Tense", "tense", TRUE, "string", ""),
     Fld("Voice", "voice", TRUE, "string", ""),
     Fld("Mood", "mood", TRUE, "string", ""),
     Fld("Sentiment", "sentiment", TRUE, "string", ""),
     Fld("SentimentProbability", "sentimentProb", TRUE, "float", "") >>

\* jsonnlp.go lines 111-116: type Dependency struct (revision 0.8)
V08_Dependency ==
  << Fld("Label", "lab", FALSE, "string", ""),
     Fld("Governor", "gov", FALSE, "int", ""),
     Fld("Dependent", "dep", FALSE, "int", ""),
     Fld("Probability", "prob", TRUE, "float", "") >>

\* jsonnlp.go lines 119-124: type DependencyTree struct (revision 0.8)
V08_DependencyTree ==
  << Fld("SentenceID", "sentenceID", FALSE, "int", ""),
     Fld("Style", "style", TRUE, "string", ""),
     Fld("Dependencies", "dependencies", TRUE, "list", "Dependency"),
     Fld("Probability", "prob", TRUE, "float", "") >>

\* jsonnlp.go lines 126-129: type CoreferenceRepresentantive struct (revision 0.8)
V08_CoreferenceRepresentantive ==
  << Fld("Tokens", "tokens", FALSE, "ints", ""),
     Fld("Head", "head", TRUE, "int", "") >>

\* jsonnlp.go lines 131-135: type CoreferenceReferents struct (revision 0.8)
V08_CoreferenceReferents ==
  << Fld("Tokens", "tokens", FALSE, "ints", ""),
     Fld("Head", "head", TRUE, "int", ""),
     Fld("Probability", "prob", TRUE, "float", "") >>

\* jsonnlp.go lines 137-141: type Coreference struct (revision 0.8)
V08_Coreference ==
  << Fld("ID", "id", FALSE, "int", ""),
     Fld("Representative", "representative", FALSE, "struct", "CoreferenceRepresentantive"),
     Fld("Referents", "referents", FALSE, "list", "CoreferenceReferents") >>

\* jsonnlp.go lines 143-148: type Scope struct (revision 0.8)
V08_Scope ==
  << Fld("ID", "id", FALSE, "int", ""),
     Fld("Governor", "gov", FALSE, "ints", ""),
     Fld("Dependents", "dep", TRUE, "ints", ""),
     Fld("Terminals", "terminals", TRUE, "ints", "") >>

\* jsonnlp.go lines 150-156: type ConstituentParse struct (revision 0.8)
V08_ConstituentParse ==
  << Fld("SentenceID", "sentenceId", FALSE, "int", ""),
     Fld("Type", "type", TRUE, "string", ""),
     Fld("LabeledBracketing", "labeledBracketing", FALSE, "string", ""),
     Fld("Probability", "prob", TRUE, "float", ""),
     Fld("Scopes", "scopes", TRUE, "list", "Scope") >>

\* jsonnlp.go lines 158-167: type Expression struct (revision 0.8)
V08_Expression ==
  << Fld("ID", "id", FALSE, "int", ""),
     Fld("Type", "type", TRUE, "string", ""),
     Fld("Head", "head", TRUE, "int", ""),
     Fld("Dependency", "dependency", TRUE, "string", ""),
     Fld("TokenFrom", "tokenFrom", TRUE, "int", ""),
     Fld("TokenTo", "tokenTo", TRUE, "int", ""),
     Fld("Tokens", "tokens", FALSE, "ints", ""),
     Fld("Probability", "prob", TRUE, "float", "") >>

\* jsonnlp.go lines 169-175: type Paragraph struct (revision 0.8)
V08_Paragraph ==
  << Fld("ID", "id", FALSE, "int", ""),
     Fld("TokenFrom", "tokenFrom", TRUE, "int", ""),
     Fld("TokenTo", "tokenTo", TRUE, "int", ""),
     Fld("Tokens", "tokens", TRUE, "ints", ""),
     Fld("Sentences", "sentences", TRUE, "ints", "") >>

\* jsonnlp.go lines 177-180: type Attribute struct (revision 0.8)
V08_Attribute ==
  << Fld("Label", "lab", FALSE, "string", ""),
     Fld("Value", "val", FALSE, "string", "") >>

\* jsonnlp.go lines 182-189: type Entity struct (revision 0.8)
V08_Entity ==
  << Fld("ID", "id", FALSE, "int", ""),
     Fld("Label", "label", FALSE, "string", ""),
     Fld("Type", "type", FALSE, "string", ""),
     Fld("Sentiment", "sentiment", TRUE, "string", ""),
     Fld("SentimentProbability", "sentimentProb", TRUE, "float", ""),
     Fld("Attributes", "attributes", FALSE, "list", "Attribute") >>

\* jsonnlp.go lines 191-198: type Relation struct (revision 0.8)
V08_Relation ==
  << Fld("ID", "id", FALSE, "int", ""),
     Fld("Label", "label", FALSE, "string", ""),
     Fld("Type", "type", FALSE, "string", ""),
     Fld("Sentiment", "sentiment", TRUE, "string", ""),
     Fld("SentimentProbability", "sentimentProb", TRUE, "float", ""),
     Fld("Attributes", "attributes", FALSE, "list", "Attribute") >>

\* jsonnlp.go lines 200-213: type Triple struct (revision 0.8)
V08_Triple ==
  << Fld("FromEntity", "fromEntity", FALSE, "int", ""),
     Fld("ToEntity", "toEntity", FALSE, "int", ""),
     Fld("Relation", "rel", FALSE, "int", ""),
     Fld("ClauseID", "clauseID", TRUE, "int", ""),
     Fld("SentenceID", "sentenceID", TRUE, "int", ""),
     Fld("Directional", "directional", TRUE, "bool", ""),
     Fld("EventID", "eventID", TRUE, "int", ""),
     Fld("TemporalSequence", "tempSeq", TRUE, "int", ""),
     Fld("Probability", "prob", TRUE, "float", ""),
     Fld("Syntactic", "syntactic", TRUE, "bool", ""),
     Fld("Implied", "implied", TRUE, "bool", ""),
     Fld("Presupposed", "presupposed", TRUE, "bool", "") >>

\* jsonnlp.go lines 215-229: type Document struct (revision 0.8)
V08_Document ==
  << Fld("MetaDocument", "meta", FALSE, "struct", "Meta"),
     Fld("ID", "id", FALSE, "int", ""),
     Fld("TokenList", "tokenList", TRUE, "list", "TokenList"),
     Fld("Clauses", "clauses", TRUE, "list", "Clause"),
     Fld("Sentences", "sentences", TRUE, "list", "Sentence"),
     Fld("Paragraphs", "paragraphs", TRUE, "list", "Paragraph"),
     Fld("DependencyTrees", "dependencyTrees", TRUE, "list", "DependencyTree"),
     Fld("Coreferences", "coreferences", TRUE, "list", "Coreference"),
     Fld("Constituents", "constituents", TRUE, "list", "ConstituentParse"),
     Fld("Expressions", "expressions", TRUE, "list", "Expression"),
     Fld("Entities", "entities", TRUE, "list", "Entity"),
     Fld("Relations", "relations", TRUE, "list", "Relation"),
     Fld("Triples", "triples", TRUE, "list", "Triple") >>

\* jsonnlp.go lines 231-234: type JSONNLP struct (revision 0.8)
V08_JSONNLP ==
  << Fld("MetaData", "meta", TRUE, "struct", "Meta"),
     Fld("Documents", "documents", TRUE, "list", "Document") >>

\* The record types revision 0.8 declares, by Go type name.
V08_Types ==
  ("Meta" :> V08_Meta) @@ ("TokenFeatures" :> V08_TokenFeatures) @@ ("TokenList" :> V08_TokenList) @@ ("Sentence" :> V08_Sentence) @@ ("Clause" :> V08_Clause) @@ ("Dependency" :> V08_Dependency) @@ ("DependencyTree" :> V08_DependencyTree) @@ ("CoreferenceRepresentantive" :> V08_CoreferenceRepresentantive) @@ ("CoreferenceReferents" :> V08_CoreferenceReferents) @@ ("Coreference" :> V08_Coreference) @@ ("Scope" :> V08_Scope) @@ ("ConstituentParse" :> V08_ConstituentParse) @@ ("Expression" :> V08_Expression) @@ ("Paragraph" :> V08_Paragraph) @@ ("Attribute" :> V08_Attribute) @@ ("Entity" :> V08_Entity) @@ ("Relation" :> V08_Relation) @@ ("Triple" :> V08_Triple) @@ ("Document" :> V08_Document) @@ ("JSONNLP" :> V08_JSONNLP)

\* unnamed/part_001 lines 21-33: type Meta struct (revision 0.8.3)
V083_Meta ==
  << Fld("DCConformsTo", "DC.conformsTo", FALSE, "string", ""),
     Fld("DCAuthor", "DC.author", FALSE, "string", ""),
     Fld("DCCreated", "DC.created", FALSE, "string", ""),
     Fld("DCDate", "DC.date", TRUE, "string", ""),
     Fld("DCSource", "DC.source", TRUE, "string", ""),
     Fld("DCLanguage", "DC.language", TRUE, "string", ""),
     Fld("DCCreator", "DC.creator", TRUE, "string", ""),
     Fld("DCPublisher", "DC.publisher", TRUE, "string", ""),
     Fld("DCTitle", "DC.title", TRUE, "string", ""),
     Fld("DCDescription", "DC.description", TRUE, "string", ""),
     Fld("DCIdentifier", "DC.identifier", TRUE, "string", "") >>

\* unnamed/part_001 lines 36-59: type TokenFeatures struct (revision 0.8.3)
V083_TokenFeatures ==
  << Fld("Overt", "overt", TRUE, "bool", ""),
     Fld("Stop", "stop", TRUE, "bool", ""),
     Fld("Alpha", "alpha", TRUE, "bool", ""),
     Fld("Number", "number", TRUE, "int", ""),
     Fld("Gender", "gender", TRUE, "string", ""),
     Fld("Person", "person", TRUE, "int", ""),
     Fld("Tense", "tense", TRUE, "string", ""),
     Fld("Perfect", "perfect", TRUE, "bool", ""),
     Fld("Continuous", "continuous", TRUE, "bool", ""),
     Fld("Progressive", "progressive", TRUE, "bool", ""),
     Fld("Case", "case", TRUE, "string", ""),
     Fld("Human", "human", TRUE, "bool", ""),
     Fld("Animate", "animate", TRUE, "bool", ""),
     Fld("Negated", "negated", TRUE, "bool", ""),
     Fld("Countable", "countable", TRUE, "bool", ""),
     Fld("Factive", "factive", TRUE, "bool", ""),
     Fld("Counterfactive", "counterfactive", TRUE, "bool", ""),
     Fld("Irregular", "irregular", TRUE, "bool", ""),
     Fld("PhrasalVerb", "phrasalVerb", TRUE, "bool", ""),
     Fld("Mood", "mood", TRUE, "string", ""),
     Fld("Foreign", "foreign", TRUE, "bool", ""),
     Fld("SpaceAfter", "spaceAfter", TRUE, "bool", "") >>

\* unnamed/part_001 lines 62-86: type Token struct (revision 0.8.3)
V083_Token ==
  << Fld("ID", "id", FALSE, "int", ""),
     Fld("SentenceID", "sentence_id", FALSE, "int", ""),
     Fld("Text", "text", FALSE, "string", ""),
     Fld("Lemma", "lemma", TRUE, "string", ""),
     Fld("XPoS", "xpos", TRUE, "string", ""),
     Fld("XPoSProbability", "xpos_prob", TRUE, "float", ""),
     Fld("UPoS", "upos", TRUE, "string", ""),
     Fld("UPoSProbability", "upos_prob", TRUE, "float", ""),
     Fld("EntityIOB", "entity_iob", TRUE, "string", ""),
     Fld("CharacterOffsetBegin", "characterOffsetBegin", TRUE, "int", ""),
     Fld("CharacterOffsetEnd", "characterOffsetEnd", TRUE, "int", ""),
     Fld("PropID", "propID", TRUE, "string", ""),
     Fld("PropIDProbability", "propIDProbability", TRUE, "float", ""),
     Fld("FrameID", "frameID", TRUE, "int", ""),
     Fld("FrameIDProbability", "frameIDProb", TRUE, "float", ""),
     Fld("WordNetID", "wordNetID", TRUE, "int", ""),
     Fld("WordNetIDProbability", "wordNetIDProb", TRUE, "float", ""),
     Fld("VerbNetID", "verbNetID", TRUE, "int", ""),
     Fld("VerbNetIDProbability", "verbNetIDProb", TRUE, "float", ""),
     Fld("Lang", "lang", TRUE, "string", ""),
     Fld("Features", "features", TRUE, "struct", "TokenFeatures"),
     Fld("Shape", "shape", TRUE, "string", ""),
     Fld("Entity", "entity", TRUE, "string", "") >>

\* unnamed/part_001 lines 89-98: type Sentence struct (revision 0.8.3)
V083_Sentence ==
  << Fld("ID", "id", FALSE, "int", ""),
     Fld("TokenFrom", "tokenFrom", TRUE, "int", ""),
     Fld("TokenTo", "tokenTo", TRUE, "int", ""),
     Fld("Tokens", "tokens", TRUE, "ints", ""),
     Fld("Clauses", "clauses", TRUE, "ints", ""),
     Fld("Type", "type", TRUE, "string", ""),
     Fld("Sentiment", "sentiment", TRUE, "string", ""),
     Fld("SentimentProbability", "sentimentProb", TRUE, "float", "") >>

\* unnamed/part_001 lines 101-119: type Clause struct (revision 0.8.3)
V083_Clause ==
  << Fld("ID", "id", FALSE, "int", ""),
     Fld("SentenceID", "sentenceID", FALSE, "int", ""),
     Fld("TokenFrom", "tokenFrom", TRUE, "int", ""),
     Fld("TokenTo", "tokenTo", TRUE, "int", ""),
     Fld("Tokens", "tokens", TRUE, "ints", ""),
     Fld("Main", "main", TRUE, "bool", ""),
     Fld("Governor", "gov", TRUE, "int", ""),
     Fld("Head", "head", TRUE, "int", ""),
     Fld("Negation", "neg", TRUE, "bool", ""),
     Fld("Tense", "tense", TRUE, "string", ""),
     Fld("Mood", "mood", TRUE, "string", ""),
     Fld("Perfect", "perfect", TRUE, "bool", ""),
     Fld("Continuous", "continuous", TRUE, "bool", ""),
     Fld("Aspect", "aspect", TRUE, "string", ""),
     Fld("Voice", "voice", TRUE, "string", ""),
     Fld("Sentiment", "sentiment", TRUE, "string", ""),
     Fld("SentimentProbability", "sentimentProb", TRUE, "float", "") >>

\* unnamed/part_001 lines 122-127: type Dependency struct (revision 0.8.3)
V083_Dependency ==
  << Fld("Label", "lab", FALSE, "string", ""),
     Fld("Governor", "gov", FALSE, "int", ""),
     Fld("Dependent", "dep", FALSE, "int", ""),
     Fld("Probability", "prob", TRUE, "float", "") >>

\* unnamed/part_001 lines 130-136: type DependencyTree struct (revision 0.8.3)
V083_DependencyTree ==
  << Fld("SentenceID", "sentenceID", FALSE, "int", ""),
     Fld("Style", "style", TRUE, "string", ""),
     Fld("Dependencies", "dependencies", TRUE, "list", "Dependency"),
     Fld("Probability", "prob", TRUE, "float", ""),
     Fld("HashOverHeads", "hashhead", TRUE, "int", "") >>

\* unnamed/part_001 lines 139-142: type CoreferenceRepresentantive struct (revision 0.8.3)
V083_CoreferenceRepresentantive ==
  << Fld("Tokens", "tokens", FALSE, "ints", ""),
     Fld("Head", "head", TRUE, "int", "") >>

\* unnamed/part_001 lines 145-149: type CoreferenceReferents struct (revision 0.8.3)
V083_CoreferenceReferents ==
  << Fld("Tokens", "tokens", FALSE, "ints", ""),
     Fld("Head", "head", TRUE, "int", ""),
     Fld("Probability", "prob", TRUE, "float", "") >>

\* unnamed/part_001 lines 152-156: type Coreference struct (revision 0.8.3)
V083_Coreference ==
  << Fld("ID", "id", FALSE, "int", ""),
     Fld("Representative", "representative", FALSE, "struct", "CoreferenceRepresentantive"),
     Fld("Referents", "referents", FALSE, "list", "CoreferenceReferents") >>

\* unnamed/part_001 lines 159-164: type Scope struct (revision 0.8.3)
V083_Scope ==
  << Fld("ID", "id", FALSE, "int", ""),
     Fld("Governor", "gov", FALSE, "ints", ""),
     Fld("Dependents", "dep", TRUE, "ints", ""),
     Fld("Terminals", "terminals", TRUE, "ints", "") >>

\* unnamed/part_001 lines 167-173: type ConstituentParse struct (revision 0.8.3)
V083_ConstituentParse ==
  << Fld("SentenceID", "sentenceId", FALSE, "int", ""),
     Fld("Type", "type", TRUE, "string", ""),
     Fld("LabeledBracketing", "labeledBracketing", FALSE, "string", ""),
     Fld("Probability", "prob", TRUE, "float", ""),
     Fld("Scopes", "scopes", TRUE, "list", "Scope") >>

\* unnamed/part_001 lines 176-185: type Expression struct (revision 0.8.3)
V083_Expression ==
  << Fld("ID", "id", FALSE, "int", ""),
     Fld("Type", "type", TRUE, "string", ""),
     Fld("Head", "head", TRUE, "int", ""),
     Fld("Dependency", "dependency", TRUE, "string", ""),
     Fld("TokenFrom", "tokenFrom", TRUE, "int", ""),
     Fld("TokenTo", "tokenTo", TRUE, "int", ""),
     Fld("Tokens", "tokens", FALSE, "ints", ""),
     Fld("Probability", "prob", TRUE, "float", "") >>

\* unnamed/part_001 lines 188-194: type Paragraph struct (revision 0.8.3)
V083_Paragraph ==
  << Fld("ID", "id", FALSE, "int", ""),
     Fld("TokenFrom", "tokenFrom", TRUE, "int", ""),
     Fld("TokenTo", "tokenTo", TRUE, "int", ""),
     Fld("Tokens", "tokens", TRUE, "ints", ""),
     Fld("Sentences", "sentences", TRUE, "ints", "") >>

\* unnamed/part_001 lines 197-200: type Attribute struct (revision 0.8.3)
V083_Attribute ==
  << Fld("Label", "lab", FALSE, "string", ""),
     Fld("Value", "val", FALSE, "string", "") >>

\* unnamed/part_001 lines 203-217: type Entity struct (revision 0.8.3)
V083_Entity ==
  << Fld("ID", "id", FALSE, "int", ""),
     Fld("Label", "label", TRUE, "string", ""),
     Fld("Type", "type", FALSE, "string", ""),
     Fld("URL", "url", FALSE, "string", ""),
     Fld("Head", "head", TRUE, "int", ""),
     Fld("TokenFrom", "tokenFrom", TRUE, "int", ""),
     Fld("TokenTo", "tokenTo", TRUE, "int", ""),
     Fld("Tokens", "tokens", TRUE, "ints", ""),
     Fld("TripleID", "tripleID", TRUE, "int", ""),
     Fld("Sentiment", "sentiment", TRUE, "string", ""),
     Fld("SentimentProbability", "sentimentProb", TRUE, "float", ""),
     Fld("Count", "count", TRUE, "int", ""),
     Fld("Attributes", "attributes", FALSE, "list", "Attribute") >>

\* unnamed/part_001 lines 220-233: type Relation struct (revision 0.8.3)
V083_Relation ==
  << Fld("ID", "id", FALSE, "int", ""),
     Fld("Label", "label", FALSE, "string", ""),
     Fld("Type", "type", FALSE, "string", ""),
     Fld("URL", "url", FALSE, "string", ""),
     Fld("Head", "head", TRUE, "int", ""),
     Fld("TokenFrom", "tokenFrom", TRUE, "int", ""),
     Fld("TokenTo", "tokenTo", TRUE, "int", ""),
     Fld("Tokens", "tokens", TRUE, "ints", ""),
     Fld("Sentiment", "sentiment", TRUE, "string", ""),
     Fld("SentimentProbability", "sentimentProb", TRUE, "float", ""),
     Fld("Count", "count", TRUE, "int", ""),
     Fld("Attributes", "attributes", FALSE, "list", "Attribute") >>

\* unnamed/part_001 lines 236-251: type Triple struct (revision 0.8.3)
V083_Triple ==
  << Fld("ID", "id", FALSE, "int", ""),
     Fld("FromEntity", "fromEntity", FALSE, "int", ""),
     Fld("ToEntity", "toEntity", FALSE, "int", ""),
     Fld("Relation", "rel", FALSE, "int", ""),
     Fld("ClauseID", "clauseID", TRUE, "ints", ""),
     Fld("SentenceID", "sentenceID", TRUE, "ints", ""),
     Fld("Directional", "directional", TRUE, "bool", ""),
     Fld("EventID", "eventID", TRUE, "int", ""),
     Fld("TemporalSequence", "tempSeq", TRUE, "int", ""),
     Fld("Probability", "prob", TRUE, "float", ""),
     Fld("Syntactic", "syntactic", TRUE, "bool", ""),
     Fld("Implied", "implied", TRUE, "bool", ""),
     Fld("Presupposed", "presupposed", TRUE, "bool", ""),
     Fld("Count", "count", TRUE, "int", "") >>

\* unnamed/part_001 lines 254-268: type Document struct (revision 0.8.3)
V083_Document ==
  << Fld("MetaDocument", "meta", FALSE, "struct", "Meta"),
     Fld("ID", "id", FALSE, "int", ""),
     Fld("TokenList", "tokenList", TRUE, "list", "Token"),
     Fld("Clauses", "clauses", TRUE, "list", "Clause"),
     Fld("Sentences", "sentences", TRUE, "list", "Sentence"),
     Fld("Paragraphs", "paragraphs", TRUE, "list", "Paragraph"),
     Fld("DependencyTrees", "dependencyTrees", TRUE, "list", "DependencyTree"),
     Fld("Coreferences", "coreferences", TRUE, "list", "Coreference"),
     Fld("Constituents", "constituents", TRUE, "list", "ConstituentParse"),
     Fld("Expressions", "expressions", TRUE, "list", "Expression"),
     Fld("Entities", "entities", TRUE, "list", "Entity"),
     Fld("Relations", "relations", TRUE, "list", "Relation"),
     Fld("Triples", "triples", TRUE, "list", "Triple") >>

\* unnamed/part_001 lines 271-274: type JSONNLP struct (revision 0.8.3)
V083_JSONNLP ==
  << Fld("MetaData", "meta", TRUE, "struct", "Meta"),
     Fld("Documents", "documents", TRUE, "list", "Document") >>

\* The record types revision 0.8.3 declares, by Go type name.
V083_Types ==
  ("Meta" :> V083_Meta) @@ ("TokenFeatures" :> V083_TokenFeatures) @@ ("Token" :> V083_Token) @@ ("Sentence" :> V083_Sentence) @@ ("Clause" :> V083_Clause) @@ ("Dependency" :> V083_Dependency) @@ ("DependencyTree" :> V083_DependencyTree) @@ ("CoreferenceRepresentantive" :> V083_CoreferenceRepresentantive) @@ ("CoreferenceReferents" :> V083_CoreferenceReferents) @@ ("Coreference" :> V083_Coreference) @@ ("Scope" :> V083_Scope) @@ ("ConstituentParse" :> V083_ConstituentParse) @@ ("Expression" :> V083_Expression) @@ ("Paragraph" :> V083_Paragraph) @@ ("Attribute" :> V083_Attribute) @@ ("Entity" :> V083_Entity) @@ ("Relation" :> V083_Relation) @@ ("Triple" :> V083_Triple) @@ ("Document" :> V083_Document) @@ ("JSONNLP" :> V083_JSONNLP)
(***************************************************************************)
(* The revisions and their schema.                                         *)
(***************************************************************************)
Revisions == {"0.2", "0.4", "0.8", "0.8.3"}

Types(rev) ==
  CASE rev = "0.2" -> V02_Types
    [] rev = "0.4" -> V04_Types
    [] rev = "0.8" -> V08_Types
    [] rev = "0.8.3" -> V083_Types

\* The root type of every revision.
Root == "JSONNLP"

(***************************************************************************)
(* encoding/json builds the field list of a struct type once: of the       *)
(* fields that carry the same key at the same depth it keeps the single    *)
(* tagged one, and when several are tagged it keeps none and reports       *)
(* nothing.  Every field of these schemas is tagged, so a key that two     *)
(* fields of one struct declare hides both of them, from the encoder and   *)
(* from the decoder alike.                                                 *)
(***************************************************************************)
Dominant(fs) ==
  SelectSeq(fs, LAMBDA f : Cardinality({i \in DOMAIN fs : fs[i].key = f.key}) = 1)

(***************************************************************************)
(* The zero value of a type: what JSONNLP{} and every field nobody wrote   *)
(* holds.                                                                  *)
(***************************************************************************)
RECURSIVE NewStruct(_, _)

\* A constructor that would stamp the revision of the schema on a new Meta
\* record, which the declaration of the struct does not do.
ZeroOfStamped(types, f) ==
  CASE f.kind = "int" -> 0
    [] f.kind = "string" -> IF f.name = "DCConformsTo" THEN "0.8" ELSE ""
    [] f.kind = "bool" -> FALSE
    [] f.kind = "float" -> Float(0, 0)
    [] f.kind = "ints" -> NilSlice
    [] f.kind = "list" -> NilSlice
    [] f.kind = "struct" -> NewStruct(types, f.of)

ZeroOf(types, f) ==
  CASE f.kind = "int" -> 0
    [] f.kind = "string" -> ""
    [] f.kind = "bool" -> FALSE
    [] f.kind = "float" -> Float(0, 0)
    [] f.kind = "ints" -> NilSlice
    [] f.kind = "list" -> NilSlice
    [] f.kind = "struct" -> NewStruct(types, f.of)

NewStruct(types, T) ==
  LET fs == types[T]
  IN  [n \in {fs[i].name : i \in DOMAIN fs} |->
         ZeroOf(types, fs[CHOOSE i \in DOMAIN fs : fs[i].name = n])]

(***************************************************************************)
(* What a program built with revision r knows of its types: the fields of  *)
(* every struct in the order of the declaration (types), the fields the    *)
(* encoder and the decoder see (live), the fields by their Go names        *)
(* (byname) and the zero value of every struct (zero).                     *)
(***************************************************************************)
Compiled(types) ==
  [types  |-> types,
   live   |-> [T \in DOMAIN types |-> Dominant(types[T])],
   byname |-> [T \in DOMAIN types |->
                 [n \in {types[T][i].name : i \in DOMAIN types[T]} |->
                    types[T][CHOOSE i \in DOMAIN types[T] : types[T][i].name = n]]],
   zero   |-> [T \in DOMAIN types |-> NewStruct(types, T)]]

SchemaOf(r) == Compiled(Types(r))

Fields(sch, T) == sch.types[T]

LiveFields(sch, T) == sch.live[T]

FieldNamed(sch, T, n) == sch.byname[T][n]

FieldNames(sch, T) == DOMAIN sch.byname[T]

ZeroStruct(sch, T) == sch.zero[T]

(***************************************************************************)
(* json.Marshal.                                                           *)
(***************************************************************************)
\* isEmptyValue of encoding/json: what omitempty omits.  A struct is never
\* empty, whatever its fields hold.
\* An omitempty that would hold no float64 to be empty.
IsEmptyValueButFloat(f, x) ==
  CASE f.kind = "int" -> x = 0
    [] f.kind = "string" -> x = ""
    [] f.kind = "bool" -> x = FALSE
    [] f.kind = "float" -> FALSE
    [] f.kind = "ints" -> Len(x.e) = 0
    [] f.kind = "list" -> Len(x.e) = 0
    [] f.kind = "struct" -> FALSE

IsEmptyValue(f, x) ==
  CASE f.kind = "int" -> x = 0
    [] f.kind = "string" -> x = ""
    [] f.kind = "bool" -> x = FALSE
    [] f.kind = "float" -> (~x.nan /\ x.i = 0 /\ x.f = 0)
    [] f.kind = "ints" -> Len(x.e) = 0
    [] f.kind = "list" -> Len(x.e) = 0
    [] f.kind = "struct" -> FALSE

\* The encoder writes a string as valid UTF-8: every invalid byte sequence
\* becomes U+FFFD.
CoerceUTF8(s) == IF s = BadUTF8 THEN Replacement ELSE s

RECURSIVE MarshalStruct(_, _, _)

\* An encoder that would write integers in quotes, as the tag option
\* "string" asks for; no tag of these schemas has that option.
MarshalValueQuoted(sch, f, x) ==
  CASE f.kind = "int" -> JStr("n")
    [] f.kind = "string" -> JStr(CoerceUTF8(x))
    [] f.kind = "bool" -> JBool(x)
    [] f.kind = "float" -> IF x.nan THEN JUnsupported ELSE JNum(x.i, x.f)
    [] f.kind = "ints" ->
         IF x.nil THEN JNull
         ELSE JArr([i \in 1..Len(x.e) |-> JNum(x.e[i], 0)])
    [] f.kind = "list" ->
         IF x.nil THEN JNull
         ELSE JArr([i \in 1..Len(x.e) |-> MarshalStruct(sch, f.of, x.e[i])])
    [] f.kind = "struct" -> MarshalStruct(sch, f.of, x)

MarshalValue(sch, f, x) ==
  CASE f.kind = "int" -> JNum(x, 0)
    [] f.kind = "string" -> JStr(CoerceUTF8(x))
    [] f.kind = "bool" -> JBool(x)
    [] f.kind = "float" -> IF x.nan THEN JUnsupported ELSE JNum(x.i, x.f)
    [] f.kind = "ints" ->
         IF x.nil THEN JNull
         ELSE JArr([i \in 1..Len(x.e) |-> JNum(x.e[i], 0)])
    [] f.kind = "list" ->
         IF x.nil THEN JNull
         ELSE JArr([i \in 1..Len(x.e) |-> MarshalStruct(sch, f.of, x.e[i])])
    [] f.kind = "struct" -> MarshalStruct(sch, f.of, x)

MarshalStruct(sch, T, v) ==
  LET fs   == LiveFields(sch, T)
      kept == SelectSeq(fs, LAMBDA f : ~(f.omit /\ IsEmptyValue(f, v[f.name])))
  IN  JObj([i \in 1..Len(kept) |->
              Member(kept[i].key, MarshalValue(sch, kept[i], v[kept[i].name]))])

\* Whether the encoder met a value it cannot write.
RECURSIVE Poisoned(_)

Poisoned(jv) ==
  CASE jv.j = "unsupported" -> TRUE
    [] jv.j = "arr" -> \E i \in DOMAIN jv.a : Poisoned(jv.a[i])
    [] jv.j = "obj" -> \E i \in DOMAIN jv.m : Poisoned(jv.m[i].v)
    [] OTHER -> FALSE

\* Whether the encoder wrote U+FFFD for bytes that are no UTF-8.
RECURSIVE Coerced(_)

Coerced(jv) ==
  CASE jv.j = "str" -> jv.s = Replacement
    [] jv.j = "arr" -> \E i \in DOMAIN jv.a : Coerced(jv.a[i])
    [] jv.j = "obj" -> \E i \in DOMAIN jv.m : Coerced(jv.m[i].v)
    [] OTHER -> FALSE

\* An encoder that would refuse a string that is not valid UTF-8, which
\* json.Marshal does not.
MarshalStrict(sch, v) ==
  LET jv == MarshalStruct(sch, Root, v)
  IN  IF Poisoned(jv)
      THEN [bytes |-> BadText, err |-> "UnsupportedValueError"]
      ELSE IF Coerced(jv)
      THEN [bytes |-> BadText, err |-> "InvalidUTF8Error"]
      ELSE [bytes |-> Text(jv), err |-> "nil"]

\* json.Marshal(data): the text and a nil error, or no text and
\* UnsupportedValueError.
Marshal(sch, v) ==
  LET jv == MarshalStruct(sch, Root, v)
  IN  IF Poisoned(jv)
      THEN [bytes |-> BadText, err |-> "UnsupportedValueError"]
      ELSE [bytes |-> Text(jv), err |-> "nil"]

(***************************************************************************)
(* json.Unmarshal.                                                         *)
(*                                                                         *)
(* A key of the text selects the field whose tag key it equals, and,       *)
(* failing that, the first field whose tag key it equals under case        *)
(* folding; a key that selects no field is skipped with its value.         *)
(* FoldKey folds the spellings that occur in the texts of this model and   *)
(* differ from a declared key in letter case only: ID for id, LEMMA for    *)
(* lemma, and sentenceID / sentenceId, which the schema itself spells both *)
(* ways (ConstituentParse against Clause and DependencyTree).              *)
(***************************************************************************)
FoldKey(k) ==
  CASE k = "ID" -> "id"
    [] k = "LEMMA" -> "lemma"
    [] k = "sentenceID" -> "sentenceid"
    [] k = "sentenceId" -> "sentenceid"
    [] OTHER -> k

\* The index, in the field list fs, of the field the key k selects; 0 when
\* it selects none.
MatchField(fs, k) ==
  LET exact == {i \in DOMAIN fs : fs[i].key = k}
      fold  == {i \in DOMAIN fs : FoldKey(fs[i].key) = FoldKey(k)}
  IN  IF exact # {} THEN CHOOSE i \in exact : TRUE
      ELSE IF fold # {} THEN CHOOSE i \in fold : \A h \in fold : i <= h
      ELSE 0

(***************************************************************************)
(* Decoding the JSON value jv into a Go value that holds old.  The result  *)
(* is [v, err]: the value afterwards, and whether an UnmarshalTypeError    *)
(* was saved on the way.  A value of the wrong JSON type leaves its target *)
(* as it was and decoding goes on with the rest of the text; null sets a   *)
(* slice to nil and leaves every other target alone; an array decodes its  *)
(* i-th element into the i-th element the slice already has and into a     *)
(* zero element beyond them; an object decodes its members in order, each  *)
(* into the field it selects, and touches no other field.                  *)
(***************************************************************************)
Res(v, err) == [v |-> v, err |-> err]

\* The result of a list from the results of its elements, and of a struct
\* from the results of its fields.
ListRes(el) ==
  Res(MkSlice([i \in DOMAIN el |-> el[i].v]), \E i \in DOMAIN el : el[i].err)

StructRes(rs) ==
  Res([n \in DOMAIN rs |-> rs[n].v], \E n \in DOMAIN rs : rs[n].err)

\* After r was decoded into the value of acc.
Then(acc, r) == Res(r.v, acc.err \/ r.err)

\* The values of the members ms that select the h-th field, in the order
\* of the text; sel[i] is the index of the field the i-th member selects.
Hits(ms, sel, h) ==
  LET ix == SelectSeq([i \in DOMAIN ms |-> i], LAMBDA i : sel[i] = h)
  IN  [i \in DOMAIN ix |-> ms[ix[i]].v]

\* A decoder that would look an id up among the entries decoded so far and
\* keep it only when it names one; decoding a field alone, it finds none.
DecodeIntResolved(jv, old) ==
  IF jv.j = "null" THEN Res(old, FALSE)
  ELSE IF jv.j = "num" /\ jv.f = 0 THEN Res(old, FALSE)
  ELSE Res(old, TRUE)

DecodeInt(jv, old) ==
  IF jv.j = "null" THEN Res(old, FALSE)
  ELSE IF jv.j = "num" /\ jv.f = 0 THEN Res(jv.i, FALSE)
  ELSE Res(old, TRUE)

RECURSIVE DecodeStruct(_, _, _, _), DecodeField(_, _, _, _, _)

DecodeValue(sch, f, jv, old) ==
  CASE f.kind = "int" -> DecodeInt(jv, old)
    [] f.kind = "string" ->
         IF jv.j = "null" THEN Res(old, FALSE)
         ELSE IF jv.j = "str" THEN Res(jv.s, FALSE)
         ELSE Res(old, TRUE)
    [] f.kind = "bool" ->
         IF jv.j = "null" THEN Res(old, FALSE)
         ELSE IF jv.j = "bool" THEN Res(jv.b, FALSE)
         ELSE Res(old, TRUE)
    [] f.kind = "float" ->
         IF jv.j = "null" THEN Res(old, FALSE)
         ELSE IF jv.j = "num" THEN Res(Float(jv.i, jv.f), FALSE)
         ELSE Res(old, TRUE)
    [] f.kind = "ints" ->
         IF jv.j = "null" THEN Res(NilSlice, FALSE)
         ELSE IF jv.j = "arr"
         THEN ListRes([i \in 1..Len(jv.a) |->
                         DecodeInt(jv.a[i],
                                   IF i <= Len(old.e) THEN old.e[i] ELSE 0)])
         ELSE Res(old, TRUE)
    [] f.kind = "list" ->
         IF jv.j = "null" THEN Res(NilSlice, FALSE)
         ELSE IF jv.j = "arr"
         THEN ListRes([i \in 1..Len(jv.a) |->
                         DecodeStruct(sch, f.of, jv.a[i],
                                      IF i <= Len(old.e) THEN old.e[i]
                                      ELSE ZeroStruct(sch, f.of))])
         ELSE Res(old, TRUE)
    [] f.kind = "struct" -> DecodeStruct(sch, f.of, jv, old)

\* The values vals[i..] decoded one after the other into the field f, which
\* holds acc.v .
DecodeField(sch, f, vals, i, acc) ==
  IF i > Len(vals) THEN acc
  ELSE DecodeField(sch, f, vals, i + 1,
                   Then(acc, DecodeValue(sch, f, vals[i], acc.v)))

\* The members of an object are decoded in the order of the text, each into
\* the field it selects; what is decoded into one field does not depend on
\* what is decoded into another.
DecodeStruct(sch, T, jv, old) ==
  IF jv.j = "null" THEN Res(old, FALSE)
  ELSE IF jv.j = "obj"
  THEN LET fs  == LiveFields(sch, T)
           sel == [i \in DOMAIN jv.m |-> MatchField(fs, jv.m[i].k)]
           hit == {fs[sel[i]].name : i \in {x \in DOMAIN jv.m : sel[x] # 0}}
       IN  StructRes([n \in FieldNames(sch, T) |->
                        IF n \in hit
                        THEN DecodeField(sch, FieldNamed(sch, T, n),
                                         Hits(jv.m, sel, MatchField(fs, FieldNamed(sch, T, n).key)),
                                         1, Res(old[n], FALSE))
                        ELSE Res(old[n], FALSE)])
  ELSE Res(old, TRUE)

\* Whether an object of the JSON value has a key that selects no field.
RECURSIVE HasUnknownField(_, _, _)

HasUnknownField(sch, T, jv) ==
  /\ jv.j = "obj"
  /\ \E i \in DOMAIN jv.m :
       LET h == MatchField(LiveFields(sch, T), jv.m[i].k)
           c == jv.m[i].v
       IN  IF h = 0 THEN TRUE
           ELSE LET f == LiveFields(sch, T)[h]
                IN  CASE f.kind = "struct" -> HasUnknownField(sch, f.of, c)
                      [] f.kind = "list" ->
                           /\ c.j = "arr"
                           /\ \E e \in DOMAIN c.a : HasUnknownField(sch, f.of, c.a[e])
                      [] OTHER -> FALSE

\* A decoder that would be set up with DisallowUnknownFields, which
\* json.Unmarshal is not: a key that selects no field is an error.
UnmarshalStrict(sch, text, old) ==
  IF ~text.valid THEN [v |-> old, err |-> "SyntaxError"]
  ELSE LET r == DecodeStruct(sch, Root, text.v, old)
       IN  [v |-> r.v,
            err |-> IF r.err THEN "UnmarshalTypeError"
                    ELSE IF HasUnknownField(sch, Root, text.v) THEN "UnknownField"
                    ELSE "nil"]

\* A decoder that would empty the receiver before it looks at the text.
UnmarshalResetting(sch, text, old) ==
  IF ~text.valid THEN [v |-> ZeroStruct(sch, Root), err |-> "SyntaxError"]
  ELSE LET r == DecodeStruct(sch, Root, text.v, ZeroStruct(sch, Root))
       IN  [v |-> r.v, err |-> IF r.err THEN "UnmarshalTypeError" ELSE "nil"]

\* json.Unmarshal(text, data): the receiver afterwards and the error.  The
\* text is checked as a whole before anything is decoded, so a text that is
\* no JSON value leaves the receiver untouched.
Unmarshal(sch, text, old) ==
  IF ~text.valid THEN [v |-> old, err |-> "SyntaxError"]
  ELSE LET r == DecodeStruct(sch, Root, text.v, old)
       IN  [v |-> r.v, err |-> IF r.err THEN "UnmarshalTypeError" ELSE "nil"]

(***************************************************************************)
(* Paths.  A path is the sequence of Go field names that leads from a      *)
(* struct to one of its fields, through nested structs and through the     *)
(* elements of lists.                                                      *)
(***************************************************************************)
RECURSIVE Paths(_, _), FieldAt(_, _, _), OwnerAt(_, _, _)

Paths(sch, T) ==
  UNION { {<<f.name>>} \cup
          (IF f.kind \in {"struct", "list"}
           THEN {<<f.name>> \o p : p \in Paths(sch, f.of)}
           ELSE {})
        : f \in {Fields(sch, T)[i] : i \in DOMAIN Fields(sch, T)} }

\* The field a path ends in, and the struct type that declares it.
FieldAt(sch, T, path) ==
  LET f == FieldNamed(sch, T, Head(path))
  IN  IF Len(path) = 1 THEN f ELSE FieldAt(sch, f.of, Tail(path))

OwnerAt(sch, T, path) ==
  IF Len(path) = 1 THEN T
  ELSE OwnerAt(sch, FieldNamed(sch, T, Head(path)).of, Tail(path))

(***************************************************************************)
(* The state.                                                              *)
(*   rev    the revision of the package the program is built with          *)
(*   schema the struct declarations of that revision, as SchemaOf gives    *)
(*          them; no operation changes them                                *)
(*   fs     the files the caller supplies: name -> [exists, text]          *)
(*   data   the Corpus the calls work on (the receiver of FromString,      *)
(*          FromFile and GetJSON, the result of loadJSON)                  *)
(*   old    the Corpus as it was when the last call began                  *)
(*   call   the last call: its name, and the text or file name given       *)
(*   lib    what the library calls inside the last call returned, which    *)
(*          the decoding functions assign to _                            *)
(*   ret    what the last call returned to its caller                      *)
(*   copy   a second Corpus, constructed fresh, into which the text the    *)
(*          last GetJSON returned is decoded                               *)
(*   ncalls the number of calls made                                       *)
(*   peer   a program built with the revision before rev, and the Corpus   *)
(*          it holds, whose text this program decodes                      *)
(*   tasks  the goroutines of the program that call the codec, each on a   *)
(*          Corpus of its own: where each is in its call, and its locals   *)
(***************************************************************************)
VARIABLES rev, schema, fs, data, old, call, lib, ret, copy, ncalls, peer, tasks

vars == <<rev, schema, fs, data, old, call, lib, ret, copy, ncalls, peer, tasks>>

\* Calls per behaviour, and elements per list in the texts and the Corpus
\* values the model is started with.
MaxCalls == 2

MaxLen == 1

NoCall == [op |-> "none", text |-> BadText, file |-> ""]

NoLib == [read |-> "none", unmarshal |-> "none"]

\* FromString and FromFile have no result; loadJSON returns the Corpus and
\* nothing else.
NoResult == [err |-> "none", bytes |-> BadText]

NoCopy == [made |-> FALSE]

NoPeer == [rev |-> "none"]

\* The goroutines, and a goroutine that has made no call: the call it is
\* in and its position in it, the argument of the call, the local variable
\* file of FromFile, its Corpus now and when the call began, and what
\* GetJSON returned to it.
Procs == {"g1", "g2"}

Idle(c) ==
  [pc |-> "idle", op |-> "none", text |-> BadText, fn |-> "", file |-> BadText,
   data |-> c, start |-> c, ret |-> NoResult]

NoTasks == [p \in Procs |-> [pc |-> "none"]]

HasMethods(r) == r \in {"0.8", "0.8.3"}

\* ioutil.ReadFile: the contents and nil, or nil and an error.  No bytes at
\* all are a text that is no JSON value.
\* A reader that would hand over what a first read of the stream gives, a
\* part of the contents, which is no JSON value.
ReadFilePartial(files, fn) ==
  IF fn \in DOMAIN files /\ files[fn].exists
  THEN [bytes |-> BadText, err |-> "nil"]
  ELSE [bytes |-> BadText, err |-> "PathError"]

ReadFile(files, fn) ==
  IF fn \in DOMAIN files /\ files[fn].exists
  THEN [bytes |-> files[fn].text, err |-> "nil"]
  ELSE [bytes |-> BadText, err |-> "PathError"]

(***************************************************************************)
(* The operations.                                                         *)
(***************************************************************************)
\* func (data *JSONNLP) FromString(t string)
FromString(t) ==
  /\ HasMethods(rev)
  /\ LET r == Unmarshal(schema, t, data)
     IN  /\ data' = r.v
         /\ lib' = [read |-> "none", unmarshal |-> r.err]
  /\ old' = data
  /\ call' = [op |-> "FromString", text |-> t, file |-> ""]
  /\ ret' = NoResult
  /\ ncalls' = ncalls + 1
  /\ UNCHANGED <<rev, schema, fs, copy, peer, tasks>>

\* func (data *JSONNLP) FromFile(filename string)
FromFile(fn) ==
  /\ HasMethods(rev)
  /\ LET file == ReadFile(fs, fn)
         r    == Unmarshal(schema, file.bytes, data)
     IN  /\ data' = r.v
         /\ lib' = [read |-> file.err, unmarshal |-> r.err]
  /\ old' = data
  /\ call' = [op |-> "FromFile", text |-> BadText, file |-> fn]
  /\ ret' = NoResult
  /\ ncalls' = ncalls + 1
  /\ UNCHANGED <<rev, schema, fs, copy, peer, tasks>>

\* func loadJSON(filename string) JSONNLP
loadJSON(fn) ==
  /\ ~HasMethods(rev)
  /\ LET file == ReadFile(fs, fn)
         r    == Unmarshal(schema, file.bytes, ZeroStruct(schema, Root))
     IN  /\ data' = r.v
         /\ lib' = [read |-> file.err, unmarshal |-> r.err]
  /\ old' = data
  /\ call' = [op |-> "loadJSON", text |-> BadText, file |-> fn]
  /\ ret' = NoResult
  /\ ncalls' = ncalls + 1
  /\ UNCHANGED <<rev, schema, fs, copy, peer, tasks>>

\* func (data *JSONNLP) GetJSON() ([]byte, error), and getJSON(data) of the
\* revisions before 0.8.
GetJSON ==
  /\ ret' = Marshal(schema, data)
  /\ old' = data
  /\ call' = [op |-> "GetJSON", text |-> BadText, file |-> ""]
  /\ lib' = NoLib
  /\ ncalls' = ncalls + 1
  /\ UNCHANGED <<rev, schema, fs, data, copy, peer, tasks>>

\* The caller decodes the text GetJSON returned into a Corpus it has just
\* constructed: var c JSONNLP; c.FromString(string(bytes)).
Reload ==
  /\ call.op = "GetJSON"
  /\ ret.err = "nil"
  /\ ~copy.made
  /\ copy' = [made |-> TRUE,
              v |-> Unmarshal(schema, ret.bytes, ZeroStruct(schema, Root)).v]
  /\ UNCHANGED <<rev, schema, fs, data, old, call, lib, ret, ncalls, peer, tasks>>

(***************************************************************************)
(* The inputs of the general machine: a few texts and a few files.         *)
(***************************************************************************)
\* The example of the specification's section 8.
JohnMeta == JObj(<<Member("DC.conformsTo", JStr("1.0"))>>)

JohnToken ==
  JObj(<<Member("id", JNum(0, 0)), Member("sentence_id", JNum(0, 0)),
         Member("text", JStr("John"))>>)

JohnText ==
  Text(JObj(<<Member("meta", JohnMeta),
              Member("documents",
                     JArr(<<JObj(<<Member("meta", JohnMeta),
                                   Member("id", JNum(1, 0)),
                                   Member("tokenList", JArr(<<JohnToken>>))>>)>>))>>))

\* The same with a string where the Document's integer id is declared.
MismatchText ==
  Text(JObj(<<Member("meta", JohnMeta),
              Member("documents",
                     JArr(<<JObj(<<Member("meta", JohnMeta),
                                   Member("id", JStr("one")),
                                   Member("tokenList", JArr(<<JohnToken>>))>>)>>))>>))

\* An object where the list of Documents is declared.
ListMismatchText ==
  Text(JObj(<<Member("meta", JohnMeta), Member("documents", JObj(<< >>))>>))

\* A second document, with two tokens and another title.
OtherText ==
  Text(JObj(<<Member("meta", JObj(<<Member("DC.date", JStr("2020"))>>)),
              Member("documents",
                     JArr(<<JObj(<<Member("id", JNum(2, 0)),
                                   Member("tokenList",
                                          JArr(<<JObj(<<Member("lemma", JStr("be"))>>)>>))>>)>>))>>))

EmptyObjectText == Text(JObj(<< >>))

SampleTexts ==
  {BadText, EmptyObjectText, JohnText, MismatchText, ListMismatchText, OtherText}

File(t) == [exists |-> TRUE, text |-> t]

NoFile == [exists |-> FALSE, text |-> BadText]

\* empty.json holds no bytes, broken.json bytes that are no JSON value.
SampleFiles ==
  ("missing.json" :> NoFile) @@ ("empty.json" :> File(BadText)) @@
  ("broken.json" :> File(BadText)) @@ ("blank.json" :> File(EmptyObjectText)) @@
  ("john.json" :> File(JohnText)) @@ ("mismatch.json" :> File(MismatchText))

(***************************************************************************)
(* The general machine: a program built with one revision constructs an    *)
(* empty Corpus and makes up to MaxCalls calls.                            *)
(***************************************************************************)
Init ==
  /\ rev \in Revisions
  /\ schema = SchemaOf(rev)
  /\ fs = SampleFiles
  /\ data = ZeroStruct(schema, Root)
  /\ old = ZeroStruct(schema, Root)
  /\ call = NoCall
  /\ lib = NoLib
  /\ ret = NoResult
  /\ copy = NoCopy
  /\ peer = NoPeer
  /\ tasks = NoTasks
  /\ ncalls = 0

Next ==
  \/ \E t \in SampleTexts : ncalls < MaxCalls /\ FromString(t)
  \/ \E fn \in DOMAIN fs : ncalls < MaxCalls /\ FromFile(fn)
  \/ \E fn \in DOMAIN fs : ncalls < MaxCalls /\ loadJSON(fn)
  \/ ncalls < MaxCalls /\ GetJSON
  \/ Reload

Spec == Init /\ [][Next]_vars

(***************************************************************************)
(* The sweeps.  For every field of every struct of a revision, reached by  *)
(* its path from the root, the decoding sweep holds the texts in which     *)
(* that one key is written with a value of each JSON type, and the         *)
(* encoding sweep the Corpus values in which that one field is set.  The   *)
(* lists on the way to the field hold n elements, the last of which leads  *)
(* on.                                                                     *)
(***************************************************************************)
Lens == 1..MaxLen

RootPaths(sch) == Paths(sch, Root)

\* A JSON value of the type the field declares.
GoodJSON(f, n) ==
  CASE f.kind = "int" -> JNum(1, 0)
    [] f.kind = "string" -> JStr("a")
    [] f.kind = "bool" -> JBool(TRUE)
    [] f.kind = "float" -> JNum(0, 87)
    [] f.kind = "ints" -> JArr([i \in 1..n |-> JNum(i, 0)])
    [] f.kind = "list" -> JArr([i \in 1..n |-> JObj(<< >>)])
    [] f.kind = "struct" -> JObj(<< >>)

\* The values a key is written with: of the declared type, null, an empty
\* list, and values of other types.
SweepJSON(f, n) ==
  {GoodJSON(f, n), JNull} \cup
  (CASE f.kind = "int" -> {JStr("a"), JNum(0, 87)}
     [] f.kind = "string" -> {JNum(1, 0)}
     [] f.kind = "bool" -> {JStr("a")}
     [] f.kind = "float" -> {JNum(1, 0), JStr("a")}
     [] f.kind = "ints" -> {JArr(<< >>), JObj(<< >>), JArr(<<JStr("a")>>)}
     [] f.kind = "list" -> {JArr(<< >>), JObj(<< >>)}
     [] f.kind = "struct" -> {JArr(<< >>)})

\* A member whose key no struct declares, in any letter case; its value
\* holds keys that are declared.
UnknownMember == Member("x-unknown", JObj(<<Member("id", JNum(1, 0))>>))

\* The spellings that differ from a declared key in letter case only.
CaseVariants(k) ==
  CASE k = "id" -> {"ID"}
    [] k = "lemma" -> {"LEMMA"}
    [] k = "sentenceId" -> {"sentenceID"}
    [] k = "sentenceID" -> {"sentenceId"}
    [] OTHER -> {}

\* The members of the object that holds the swept key.
SweepMembers(f, n) ==
  {<<Member(f.key, jv)>> : jv \in SweepJSON(f, n)} \cup
  {<<UnknownMember, Member(f.key, GoodJSON(f, n))>>,
   <<Member(f.key, GoodJSON(f, n)), UnknownMember>>} \cup
  {<<Member(k, GoodJSON(f, n))>> : k \in CaseVariants(f.key)}

RECURSIVE PathJSON(_, _, _, _, _)

\* The object of type T in which the path leads to an object with the
\* members leaf.
PathJSON(sch, T, path, leaf, n) ==
  IF Len(path) = 1 THEN JObj(leaf)
  ELSE LET f == FieldNamed(sch, T, Head(path))
       IN  JObj(<<Member(f.key,
                         IF f.kind = "list"
                         THEN JArr([i \in 1..n |->
                                      IF i = n
                                      THEN PathJSON(sch, f.of, Tail(path), leaf, n)
                                      ELSE JObj(<< >>)])
                         ELSE PathJSON(sch, f.of, Tail(path), leaf, n))>>)

SweepTexts(sch) ==
  {BadText, EmptyObjectText, JohnText} \cup
  UNION { { Text(PathJSON(sch, Root, p, leaf, n))
            : leaf \in SweepMembers(FieldAt(sch, Root, p), n) }
          : p \in RootPaths(sch), n \in Lens }

\* A decoding sweep starts with one file, in.json, that holds one text of
\* the sweep; the caller decodes the file, or reads it and decodes the text.
InitDecode ==
  /\ rev \in Revisions
  /\ schema = SchemaOf(rev)
  /\ fs \in {("in.json" :> File(t)) : t \in SweepTexts(schema)}
  /\ data = ZeroStruct(schema, Root)
  /\ old = ZeroStruct(schema, Root)
  /\ call = NoCall
  /\ lib = NoLib
  /\ ret = NoResult
  /\ copy = NoCopy
  /\ peer = NoPeer
  /\ tasks = NoTasks
  /\ ncalls = 0

NextDecode ==
  \/ \E fn \in DOMAIN fs : ncalls = 0 /\ FromString(fs[fn].text)
  \/ \E fn \in DOMAIN fs : ncalls = 0 /\ FromFile(fn)
  \/ \E fn \in DOMAIN fs : ncalls = 0 /\ loadJSON(fn)

SpecDecode == InitDecode /\ [][NextDecode]_vars

\* The values a field is set to: values that are not the zero value of the
\* type, a string that is not valid UTF-8 and a float that is not a number
\* among them, and lists that are allocated but empty.
GoValues(sch, f, n) ==
  CASE f.kind = "int" -> {1}
    [] f.kind = "string" -> {"a", BadUTF8}
    [] f.kind = "bool" -> {TRUE}
    [] f.kind = "float" -> {Float(0, 87), NaN}
    [] f.kind = "ints" -> {MkSlice(<< >>), MkSlice([i \in 1..n |-> i])}
    [] f.kind = "list" ->
         {MkSlice(<< >>), MkSlice([i \in 1..n |-> ZeroStruct(sch, f.of)])}
    [] f.kind = "struct" -> {}

RECURSIVE Hot(_, _, _, _, _)

\* The struct of type T that is zero but for the value x at the end of the
\* path.
Hot(sch, T, path, x, n) ==
  LET f == FieldNamed(sch, T, Head(path))
  IN  IF Len(path) = 1 THEN [ZeroStruct(sch, T) EXCEPT ![f.name] = x]
      ELSE [ZeroStruct(sch, T) EXCEPT ![f.name] =
              IF f.kind = "list"
              THEN MkSlice([i \in 1..n |->
                              IF i = n THEN Hot(sch, f.of, Tail(path), x, n)
                              ELSE ZeroStruct(sch, f.of)])
              ELSE Hot(sch, f.of, Tail(path), x, n)]

Corpora(sch) ==
  {ZeroStruct(sch, Root)} \cup
  UNION { { Hot(sch, Root, p, x, n) : x \in GoValues(sch, FieldAt(sch, Root, p), n) }
          : p \in RootPaths(sch), n \in Lens }

\* An encoding sweep starts with a Corpus the caller has constructed and
\* filled in by assignment; the caller encodes it and decodes the result.
InitEncode ==
  /\ rev \in Revisions
  /\ schema = SchemaOf(rev)
  /\ fs = SampleFiles
  /\ data \in Corpora(schema)
  /\ old = data
  /\ call = NoCall
  /\ lib = NoLib
  /\ ret = NoResult
  /\ copy = NoCopy
  /\ peer = NoPeer
  /\ tasks = NoTasks
  /\ ncalls = 0

NextEncode ==
  \/ ncalls = 0 /\ GetJSON
  \/ Reload

SpecEncode == InitEncode /\ [][NextEncode]_vars

(***************************************************************************)
(* Notions the claims are stated with.                                     *)
(***************************************************************************)
\* The mandatory core of the specification's section 4.2: a record's id,
\* label and type of an Entity and of a Relation, the text of a Token.
\* Every other field is optional.
Mandatory(T, f) ==
  \/ f.key = "id"
  \/ T \in {"Entity", "Relation"} /\ f.key \in {"label", "type"}
  \/ T \in {"Token", "TokenList"} /\ f.key = "text"

Optional(T, f) == ~Mandatory(T, f)

\* The zero value of the specification: the empty string, 0, false, a list
\* without elements (nil or allocated), a nested record whose fields are
\* all at their Go zero value.
IsZero(sch, f, x) ==
  CASE f.kind = "int" -> x = 0
    [] f.kind = "string" -> x = ""
    [] f.kind = "bool" -> x = FALSE
    [] f.kind = "float" -> x = Float(0, 0)
    [] f.kind = "ints" -> Len(x.e) = 0
    [] f.kind = "list" -> Len(x.e) = 0
    [] f.kind = "struct" -> x = ZeroStruct(sch, f.of)

FieldSet(sch, T) == {Fields(sch, T)[i] : i \in DOMAIN Fields(sch, T)}

RECURSIVE ValidUTF8(_, _, _), Finite(_, _, _), View(_, _, _), OptionalZero(_, _, _)

\* Every string of the struct is valid UTF-8.
ValidUTF8(sch, T, v) ==
  \A f \in FieldSet(sch, T) :
    CASE f.kind = "string" -> v[f.name] # BadUTF8
      [] f.kind = "struct" -> ValidUTF8(sch, f.of, v[f.name])
      [] f.kind = "list" ->
           \A i \in DOMAIN v[f.name].e : ValidUTF8(sch, f.of, v[f.name].e[i])
      [] OTHER -> TRUE

\* Every float of the struct is a number.
Finite(sch, T, v) ==
  \A f \in FieldSet(sch, T) :
    CASE f.kind = "float" -> ~v[f.name].nan
      [] f.kind = "struct" -> Finite(sch, f.of, v[f.name])
      [] f.kind = "list" ->
           \A i \in DOMAIN v[f.name].e : Finite(sch, f.of, v[f.name].e[i])
      [] OTHER -> TRUE

\* The struct with every list replaced by the sequence of its elements:
\* two Corpus values are field-for-field equal when their views are equal,
\* a nil list being equal to an allocated list without elements.
View(sch, T, v) ==
  [n \in FieldNames(sch, T) |->
     LET f == FieldNamed(sch, T, n)
     IN  CASE f.kind = "ints" -> v[n].e
           [] f.kind = "list" ->
                [i \in DOMAIN v[n].e |-> View(sch, f.of, v[n].e[i])]
           [] f.kind = "struct" -> View(sch, f.of, v[n])
           [] OTHER -> v[n]]

SameCorpus(sch, a, b) == View(sch, Root, a) = View(sch, Root, b)

\* Every optional field of every record of the struct holds its zero
\* value.  The records themselves are there: a collection of records and a
\* nested record are looked into, not required to be empty.
OptionalZero(sch, T, v) ==
  \A f \in FieldSet(sch, T) :
    CASE f.kind = "struct" -> OptionalZero(sch, f.of, v[f.name])
      [] f.kind = "list" ->
           \A i \in DOMAIN v[f.name].e : OptionalZero(sch, f.of, v[f.name].e[i])
      [] OTHER -> Optional(T, f) => IsZero(sch, f, v[f.name])

\* The calls that decode, and those among them that read a file.
Decoded == call.op \in {"FromString", "FromFile", "loadJSON"}

(***************************************************************************)
(* C1.  Decoding a text that is not valid JSON returns an error to the     *)
(* caller: when the text FromString was given, or the contents of the file *)
(* FromFile or loadJSON read, are no JSON value, the call returns the      *)
(* syntax error.  The code assigns the error to _ and returns none.        *)
(***************************************************************************)
C1_SyntaxErrorReturned ==
  (Decoded /\ lib.read # "PathError" /\ lib.unmarshal = "SyntaxError")
    => ret.err = "SyntaxError"

(***************************************************************************)
(* C2.  Decoding from a path that cannot be read returns an I/O error to   *)
(* the caller, which is neither a parse error nor the absence of an error. *)
(***************************************************************************)
C2_ReadErrorReturned ==
  (Decoded /\ lib.read = "PathError") => ret.err = "PathError"

(***************************************************************************)
(* C3.  Decoding valid JSON in which a value has a type the schema does    *)
(* not declare for its key returns a parse error to the caller; the call   *)
(* does not end without an error and with the rest of the text decoded.    *)
(***************************************************************************)
C3_TypeErrorReturned ==
  (Decoded /\ lib.unmarshal = "UnmarshalTypeError")
    => ret.err = "UnmarshalTypeError"

(***************************************************************************)
(* C4.  Round trip on default values.  As claimed: for a Corpus whose      *)
(* optional fields all hold their zero value, the mandatory fields         *)
(* holding anything, the Corpus decoded from GetJSON's text into a fresh   *)
(* Corpus is field-for-field equal to it.                                  *)
(***************************************************************************)
C4_RoundTripDefaultsAnyString ==
  (copy.made /\ OptionalZero(schema, Root, data))
    => SameCorpus(schema, copy.v, data)

\* C4 as amended: the same for the Corpus values whose strings are valid
\* UTF-8.
C4_RoundTripDefaults ==
  (copy.made /\ OptionalZero(schema, Root, data) /\ ValidUTF8(schema, Root, data))
    => SameCorpus(schema, copy.v, data)

\* A round trip of a Corpus with a record in it whose mandatory field is set.
C4_Witness ==
  /\ copy.made
  /\ OptionalZero(schema, Root, data)
  /\ ValidUTF8(schema, Root, data)
  /\ data # ZeroStruct(schema, Root)
  /\ Len(data["Documents"].e) > 0

(***************************************************************************)
(* C5.  Lossless round trip: every field that holds a non-zero value holds *)
(* the same value in the Corpus decoded from GetJSON's text into a fresh   *)
(* Corpus.  Stated for the Corpus values whose strings are valid UTF-8;    *)
(* the fields at their zero value come back as zero, so the two values are *)
(* field-for-field equal.                                                  *)
(***************************************************************************)
C5_RoundTripLossless ==
  (copy.made /\ ValidUTF8(schema, Root, data))
    => SameCorpus(schema, copy.v, data)

(***************************************************************************)
(* The text GetJSON returned, read next to the Corpus it was made of.      *)
(***************************************************************************)
Encoded == call.op = "GetJSON" /\ ret.err = "nil"

KeyCount(jv, k) == Cardinality({i \in DOMAIN jv.m : jv.m[i].k = k})

ValueOf(jv, k) == jv.m[CHOOSE i \in DOMAIN jv.m : jv.m[i].k = k].v

\* The records of a struct, each with its type and the JSON object that
\* stands for it in the text: the struct itself, the records of its nested
\* structs and of the elements of its lists.
RECURSIVE Records(_, _, _, _)

Records(sch, T, v, jv) ==
  {[T |-> T, v |-> v, o |-> jv]} \cup
  UNION { LET x == v[f.name]
              c == ValueOf(jv, f.key)
          IN  IF f.kind \notin {"struct", "list"} \/ KeyCount(jv, f.key) # 1
              THEN {}
              ELSE IF f.kind = "struct"
              THEN IF c.j = "obj" THEN Records(sch, f.of, x, c) ELSE {}
              ELSE IF c.j = "arr" /\ Len(c.a) = Len(x.e)
                   THEN UNION { IF c.a[i].j = "obj"
                                THEN Records(sch, f.of, x.e[i], c.a[i])
                                ELSE {} : i \in DOMAIN x.e }
                   ELSE {}
          : f \in FieldSet(sch, T) }

\* The JSON value that carries the value x of field f: the number, the
\* string or the boolean itself, an array with one element for each element
\* of a list, an object for a record.
Carries(f, x, c) ==
  CASE f.kind = "int" -> c = JNum(x, 0)
    [] f.kind = "string" -> c = JStr(x)
    [] f.kind = "bool" -> c = JBool(x)
    [] f.kind = "float" -> c = JNum(x.i, x.f)
    [] f.kind = "ints" -> c = JArr([i \in 1..Len(x.e) |-> JNum(x.e[i], 0)])
    [] f.kind = "list" ->
         /\ c.j = "arr"
         /\ Len(c.a) = Len(x.e)
         /\ \A i \in DOMAIN c.a : c.a[i].j = "obj"
    [] f.kind = "struct" -> c.j = "obj"

(***************************************************************************)
(* C6.  Omission law, zero side: in the text GetJSON returns, the object   *)
(* of a record has no key for an optional field of the record that holds   *)
(* its zero value, an all-zero nested record included.                     *)
(***************************************************************************)
C6_ZeroOmitted ==
  Encoded =>
    \A r \in Records(schema, Root, data, ret.bytes.v) :
      \A f \in FieldSet(schema, r.T) :
        (Optional(r.T, f) /\ IsZero(schema, f, r.v[f.name]))
          => KeyCount(r.o, f.key) = 0

(***************************************************************************)
(* C7.  Omission law, non-zero side: in the text GetJSON returns, the      *)
(* object of a record has, for every field of the record that holds a      *)
(* non-zero value, exactly one key with the field's wire name, and the     *)
(* field's value under it.  Stated for the Corpus values whose strings are *)
(* valid UTF-8.                                                            *)
(***************************************************************************)
C7_NonZeroEmitted ==
  (Encoded /\ ValidUTF8(schema, Root, data)) =>
    \A r \in Records(schema, Root, data, ret.bytes.v) :
      \A f \in FieldSet(schema, r.T) :
        ~IsZero(schema, f, r.v[f.name])
          => /\ KeyCount(r.o, f.key) = 1
             /\ Carries(f, r.v[f.name], ValueOf(r.o, f.key))

(***************************************************************************)
(* C8.  Empty lists omitted: in the text GetJSON returns, the object of a  *)
(* record has no key for a list field of the record that has no elements,  *)
(* whether the list is nil or allocated with length 0.                     *)
(***************************************************************************)
C8_EmptyListOmitted ==
  Encoded =>
    \A r \in Records(schema, Root, data, ret.bytes.v) :
      \A f \in FieldSet(schema, r.T) :
        (f.kind \in {"ints", "list"} /\ Len(r.v[f.name].e) = 0)
          => KeyCount(r.o, f.key) = 0

(***************************************************************************)
(* The text a decoding call was given, and the Corpus it decoded into.     *)
(***************************************************************************)
Payload ==
  IF call.op = "FromString" THEN call.text
  ELSE IF call.file \in DOMAIN fs /\ fs[call.file].exists THEN fs[call.file].text
  ELSE BadText

Receiver == IF call.op = "loadJSON" THEN ZeroStruct(schema, Root) ELSE old

\* Whether the key k of a text is the declared key d: the same spelling,
\* or, with fold, the same but for the case of its letters.
SameKey(k, d, fold) == IF fold THEN FoldKey(k) = FoldKey(d) ELSE k = d

RECURSIVE Strip(_, _, _, _), Defaulted(_, _, _, _, _)

\* The JSON value without the members, at any depth, whose key is the key
\* of no field of the record they are written in.
Strip(sch, T, jv, fold) ==
  IF jv.j # "obj" THEN jv
  ELSE LET known(m) == \E f \in FieldSet(sch, T) : SameKey(m.k, f.key, fold)
           kept == SelectSeq(jv.m, known)
           child(m) ==
             LET f == CHOOSE g \in FieldSet(sch, T) : SameKey(m.k, g.key, fold)
             IN  CASE f.kind = "struct" -> Strip(sch, f.of, m.v, fold)
                   [] f.kind = "list" /\ m.v.j = "arr" ->
                        JArr([i \in DOMAIN m.v.a |-> Strip(sch, f.of, m.v.a[i], fold)])
                   [] OTHER -> m.v
       IN  JObj([i \in DOMAIN kept |-> Member(kept[i].k, child(kept[i]))])

\* Every optional field whose key the object of its record does not have
\* holds its zero value, in the struct v decoded from the JSON value jv and
\* in every record of it.  A record that no object of the text stands for
\* has none of its keys.
Defaulted(sch, T, jv, v, fold) ==
  \A f \in FieldSet(sch, T) :
    LET hits == IF jv.j = "obj"
                THEN {i \in DOMAIN jv.m : SameKey(jv.m[i].k, f.key, fold)}
                ELSE {}
        c == IF hits = {} THEN JNull
             ELSE jv.m[CHOOSE i \in hits : \A h \in hits : h <= i].v
        x == v[f.name]
    IN  /\ (Optional(T, f) /\ hits = {}) => IsZero(sch, f, x)
        /\ f.kind = "struct" => Defaulted(sch, f.of, c, x, fold)
        /\ f.kind = "list" =>
             \A i \in DOMAIN x.e :
               Defaulted(sch, f.of,
                         IF c.j = "arr" /\ i <= Len(c.a) THEN c.a[i] ELSE JNull,
                         x.e[i], fold)

C10_AbsentKeyZero ==
  (Decoded /\ Payload.valid /\ Receiver = ZeroStruct(schema, Root))
    => Defaulted(schema, Root, Payload.v, data, FALSE)

\* C10 as amended: the same for the keys that are absent in every letter
\* case.
C10_AbsentKeyAnyCaseZero ==
  (Decoded /\ Payload.valid /\ Receiver = ZeroStruct(schema, Root))
    => Defaulted(schema, Root, Payload.v, data, TRUE)

\* A text has been decoded into a fresh Corpus and has given it a Document,
\* most of whose keys the text does not have.
C10_Witness ==
  /\ Decoded
  /\ Payload.valid
  /\ Receiver = ZeroStruct(schema, Root)
  /\ Len(data["Documents"].e) > 0
  /\ \E f \in FieldSet(schema, "Document") :
       /\ Optional("Document", f)
       /\ KeyCount(ValueOf(Payload.v, "documents").a[1], f.key) = 0

(***************************************************************************)
(* A JSON value without the order of the members of its objects.           *)
(***************************************************************************)
RECURSIVE Canon(_)

Canon(jv) ==
  CASE jv.j = "obj" ->
         [j |-> "obj", m |-> {<<jv.m[i].k, Canon(jv.m[i].v)>> : i \in DOMAIN jv.m}]
    [] jv.j = "arr" -> [j |-> "arr", a |-> [i \in DOMAIN jv.a |-> Canon(jv.a[i])]]
    [] OTHER -> jv

\* The type of the Tokens of a Document: TokenList, and Token since 0.8.3.
TokenType == FieldNamed(schema, "Document", "TokenList").of

\* The Corpus the example of section 8 describes: one Document of id 1
\* with exactly one Token, of id 0 and text John and zero otherwise.
JohnDecoded ==
  /\ Len(data["Documents"].e) = 1
  /\ data["Documents"].e[1]["ID"] = 1
  /\ Len(data["Documents"].e[1]["TokenList"].e) = 1
  /\ data["Documents"].e[1]["TokenList"].e[1] =
       [ZeroStruct(schema, TokenType) EXCEPT !["Text"] = "John"]

(***************************************************************************)
(* C11.  The example of section 8: decoding the text of the example into   *)
(* a fresh Corpus gives one Document of id 1 with exactly one Token, of id *)
(* 0 and text John and zero otherwise; the text GetJSON returns for that   *)
(* Corpus has no key for an optional field at its zero value, and has the  *)
(* keys and the values of the text of the example, the order of the keys   *)
(* aside.                                                                  *)
(***************************************************************************)
C11_Example ==
  /\ (Decoded /\ Payload = JohnText /\ Receiver = ZeroStruct(schema, Root))
       => (JohnDecoded /\ lib.unmarshal = "nil")
  /\ (Encoded /\ data = Unmarshal(schema, JohnText, ZeroStruct(schema, Root)).v)
       => /\ \A r \in Records(schema, Root, data, ret.bytes.v) :
               \A f \in FieldSet(schema, r.T) :
                 (Optional(r.T, f) /\ IsZero(schema, f, r.v[f.name]))
                   => KeyCount(r.o, f.key) = 0
          /\ Canon(ret.bytes.v) = Canon(JohnText.v)

\* The Tokens of the Corpus, each with the object that stands for it in the
\* text GetJSON returned.
EncodedTokens ==
  {r \in Records(schema, Root, data, ret.bytes.v) : r.T = TokenType}

(***************************************************************************)
(* C12.  In the text GetJSON returns, the object of a Token whose          *)
(* XPoSProbability is 0.87 has the key xpos_prob once, with the number     *)
(* 0.87, and the object of a Token whose XPoSProbability is 0.0 has no key *)
(* xpos_prob.                                                              *)
(***************************************************************************)
C12_XPoSProbability ==
  Encoded =>
    \A r \in EncodedTokens :
      /\ r.v["XPoSProbability"] = Float(0, 87)
           => /\ KeyCount(r.o, "xpos_prob") = 1
              /\ ValueOf(r.o, "xpos_prob") = JNum(0, 87)
      /\ r.v["XPoSProbability"] = Float(0, 0)
           => KeyCount(r.o, "xpos_prob") = 0

\* GetJSON has encoded a Token with the confidence 0.87.
C12_Witness ==
  /\ Encoded
  /\ \E r \in EncodedTokens : r.v["XPoSProbability"] = Float(0, 87)

(***************************************************************************)
(* C13.  GetJSON fails only for a Corpus that holds a value the text       *)
(* cannot represent, a float64 that is not a number; for every other       *)
(* Corpus it returns a text and no error; and when it fails it returns the *)
(* error and no text.                                                      *)
(***************************************************************************)
C13_EncodeFailure ==
  call.op = "GetJSON" =>
    /\ ret.err # "nil" => ~Finite(schema, Root, data)
    /\ Finite(schema, Root, data) => (ret.err = "nil" /\ ret.bytes.valid)
    /\ ret.err # "nil" => (ret.err = "UnsupportedValueError" /\ ~ret.bytes.valid)

\* GetJSON has failed.
C13_Witness == call.op = "GetJSON" /\ ret.err = "UnsupportedValueError"

(***************************************************************************)
(* Two revisions.  A program built with the revision before rev encodes    *)
(* its Corpus; its caller stores the text in in.json, and the program      *)
(* built with rev decodes that file.                                       *)
(***************************************************************************)
Older(r) ==
  CASE r = "0.4" -> "0.2"
    [] r = "0.8" -> "0.4"
    [] r = "0.8.3" -> "0.8"

\* getJSON(data), GetJSON since 0.8, in the older program, whose caller
\* writes the text it got without an error.
Publish ==
  /\ peer.rev # "none"
  /\ ~fs["in.json"].exists
  /\ LET out == Marshal(peer.schema, peer.data)
     IN  /\ out.err = "nil"
         /\ fs' = ("in.json" :> File(out.bytes))
  /\ UNCHANGED <<rev, schema, data, old, call, lib, ret, copy, ncalls, peer, tasks>>

InitUpgrade ==
  /\ rev \in Revisions \ {"0.2"}
  /\ schema = SchemaOf(rev)
  /\ peer \in {[rev |-> Older(rev), schema |-> s, data |-> c]
                 : s \in {SchemaOf(Older(rev))}, c \in Corpora(SchemaOf(Older(rev)))}
  /\ fs = ("in.json" :> NoFile)
  /\ data = ZeroStruct(schema, Root)
  /\ old = ZeroStruct(schema, Root)
  /\ call = NoCall
  /\ lib = NoLib
  /\ ret = NoResult
  /\ copy = NoCopy
  /\ ncalls = 0
  /\ tasks = NoTasks

NextUpgrade ==
  \/ Publish
  \/ \E fn \in DOMAIN fs : ncalls = 0 /\ fs[fn].exists /\ FromString(fs[fn].text)
  \/ \E fn \in DOMAIN fs : ncalls = 0 /\ fs[fn].exists /\ FromFile(fn)
  \/ \E fn \in DOMAIN fs : ncalls = 0 /\ fs[fn].exists /\ loadJSON(fn)

SpecUpgrade == InitUpgrade /\ [][NextUpgrade]_vars

\* The field of the newer record type that has the wire key and the wire
\* type of the field f of the older one.
Heirs(sn, Tn, f) ==
  {g \in FieldSet(sn, Tn) : g.key = f.key /\ g.kind = f.kind}

RECURSIVE Additive(_, _, _, _), Carried(_, _, _, _, _, _)

\* Every field of the older record type To has its wire key and its wire
\* type in the newer record type Tn, and so have the fields of the records
\* it holds.
Additive(so, sn, To, Tn) ==
  \A f \in FieldSet(so, To) :
    /\ Heirs(sn, Tn, f) # {}
    /\ f.kind \in {"struct", "list"} =>
         \A g \in Heirs(sn, Tn, f) : Additive(so, sn, f.of, g.of)

\* The newer record b holds the value of every field of the older record
\* a, and the zero value in the fields whose key the older type has not.
Carried(so, sn, To, Tn, a, b) ==
  /\ \A f \in FieldSet(so, To) :
       /\ Heirs(sn, Tn, f) # {}
       /\ \A g \in Heirs(sn, Tn, f) :
            LET x == a[f.name]
                y == b[g.name]
            IN  CASE f.kind = "struct" -> Carried(so, sn, f.of, g.of, x, y)
                  [] f.kind = "list" ->
                       /\ Len(x.e) = Len(y.e)
                       /\ \A i \in DOMAIN x.e :
                            Carried(so, sn, f.of, g.of, x.e[i], y.e[i])
                  [] f.kind = "ints" -> x.e = y.e
                  [] OTHER -> x = y
  /\ \A g \in FieldSet(sn, Tn) :
       (\A f \in FieldSet(so, To) : f.key # g.key) => IsZero(sn, g, b[g.name])

(***************************************************************************)
(* C14.  Schema revisions are strictly additive: every field of a revision *)
(* has its wire key and its wire type in the next revision, and a text     *)
(* the older revision encoded decodes under the next revision into a       *)
(* Corpus that holds the value the text has for every field of the older   *)
(* revision, the value the older revision itself decodes from it, and the  *)
(* zero value in the fields that are new.                                  *)
(***************************************************************************)
C14_Additive ==
  (Decoded /\ peer.rev # "none" /\ Payload.valid) =>
    /\ Additive(peer.schema, schema, Root, Root)
    /\ Carried(peer.schema, schema, Root, Root,
               Unmarshal(peer.schema, Payload, ZeroStruct(peer.schema, Root)).v,
               data)

(***************************************************************************)
(* Goroutines.  Each goroutine of Procs holds a Corpus of its own and      *)
(* makes one call on it; the calls of different goroutines interleave      *)
(* between the statements of the functions.  FromString and GetJSON are    *)
(* one statement; FromFile and loadJSON read the file into the local       *)
(* variable file and then decode it.                                       *)
(***************************************************************************)
\* The goroutine's own variable file, where the bytes read are held.  With
\* a variable of the package in its place every goroutine would decode
\* what the first one holds.
FileOfPackage(ts, p) == ts["g1"].file

FileOf(ts, p) == ts[p].file

\* c.FromString(t) in goroutine p.
TaskFromString(p, t) ==
  /\ HasMethods(rev)
  /\ tasks[p].pc = "idle"
  /\ tasks' = [tasks EXCEPT ![p] =
                 [@ EXCEPT !.pc = "done", !.op = "FromString", !.text = t,
                           !.data = Unmarshal(schema, t, @).v]]
  /\ UNCHANGED <<rev, schema, fs, data, old, call, lib, ret, copy, ncalls, peer>>

\* file, _ := ioutil.ReadFile(filename) in goroutine p, in FromFile or in
\* loadJSON.
TaskReadFile(p, fn) ==
  /\ tasks[p].pc = "idle"
  /\ tasks' = [tasks EXCEPT ![p] =
                 [@ EXCEPT !.pc = "read",
                           !.op = IF HasMethods(rev) THEN "FromFile" ELSE "loadJSON",
                           !.fn = fn,
                           !.file = ReadFile(fs, fn).bytes]]
  /\ UNCHANGED <<rev, schema, fs, data, old, call, lib, ret, copy, ncalls, peer>>

\* _ = json.Unmarshal([]byte(file), data) in goroutine p; loadJSON decodes
\* into the Corpus it has just declared.
TaskUnmarshal(p) ==
  /\ tasks[p].pc = "read"
  /\ tasks' = [tasks EXCEPT ![p] =
                 [@ EXCEPT !.pc = "done",
                           !.data = Unmarshal(schema, FileOf(tasks, p),
                                              IF tasks[p].op = "loadJSON"
                                              THEN ZeroStruct(schema, Root)
                                              ELSE @).v]]
  /\ UNCHANGED <<rev, schema, fs, data, old, call, lib, ret, copy, ncalls, peer>>

\* c.GetJSON(), getJSON(c) before 0.8, in goroutine p.
TaskGetJSON(p) ==
  /\ tasks[p].pc = "idle"
  /\ tasks' = [tasks EXCEPT ![p] =
                 [@ EXCEPT !.pc = "done", !.op = "GetJSON",
                           !.ret = Marshal(schema, tasks[p].data)]]
  /\ UNCHANGED <<rev, schema, fs, data, old, call, lib, ret, copy, ncalls, peer>>

\* Every goroutine starts with a Corpus it has constructed, empty or filled
\* in with the example of section 8.
InitTasks ==
  /\ rev \in Revisions
  /\ schema = SchemaOf(rev)
  /\ fs = SampleFiles
  /\ data = ZeroStruct(schema, Root)
  /\ old = ZeroStruct(schema, Root)
  /\ call = NoCall
  /\ lib = NoLib
  /\ ret = NoResult
  /\ copy = NoCopy
  /\ ncalls = 0
  /\ peer = NoPeer
  /\ tasks \in [Procs -> {Idle(ZeroStruct(schema, Root)),
                          Idle(Unmarshal(schema, JohnText, ZeroStruct(schema, Root)).v)}]

NextTasks ==
  \/ \E p \in Procs, t \in SampleTexts : TaskFromString(p, t)
  \/ \E p \in Procs, fn \in DOMAIN fs : TaskReadFile(p, fn)
  \/ \E p \in Procs : TaskUnmarshal(p)
  \/ \E p \in Procs : TaskGetJSON(p)

SpecTasks == InitTasks /\ [][NextTasks]_vars

\* What the call of goroutine p gives when it runs alone: the Corpus
\* afterwards and what the call returns.
Alone(p) ==
  LET t == tasks[p]
  IN  CASE t.op = "FromString" ->
             [data |-> Unmarshal(schema, t.text, t.start).v, ret |-> NoResult]
        [] t.op = "FromFile" ->
             [data |-> Unmarshal(schema, ReadFile(fs, t.fn).bytes, t.start).v,
              ret |-> NoResult]
        [] t.op = "loadJSON" ->
             [data |-> Unmarshal(schema, ReadFile(fs, t.fn).bytes,
                                 ZeroStruct(schema, Root)).v,
              ret |-> NoResult]
        [] t.op = "GetJSON" ->
             [data |-> t.start, ret |-> Marshal(schema, t.start)]

C16_MandatoryEmitted ==
  Encoded =>
    \A r \in Records(schema, Root, data, ret.bytes.v) :
      \A f \in FieldSet(schema, r.T) :
        Mandatory(r.T, f) => KeyCount(r.o, f.key) = 1

(***************************************************************************)
(* C17.  FromFile decodes the whole contents of the file: after FromFile   *)
(* of a file that can be read, the Corpus is the one FromString of the     *)
(* contents gives on the Corpus as it was before the call, and the decoder *)
(* has ended the same way.                                                 *)
(***************************************************************************)
C17_FromFileIsFromString ==
  (call.op = "FromFile" /\ call.file \in DOMAIN fs /\ fs[call.file].exists) =>
    LET r == Unmarshal(schema, fs[call.file].text, old)
    IN  data = r.v /\ lib.unmarshal = r.err /\ lib.read = "nil"

\* FromFile has decoded a file into the Corpus and changed it.
C17_Witness ==
  /\ call.op = "FromFile"
  /\ call.file \in DOMAIN fs
  /\ fs[call.file].exists
  /\ fs[call.file].text.valid
  /\ data # old

(***************************************************************************)
(* C18.  The result of a decode depends on the text only: after FromString *)
(* of a JSON text the Corpus is the one FromString of that text gives on a *)
(* Corpus that has just been constructed, whatever the Corpus held before. *)
(***************************************************************************)
C18_DecodeReplaces ==
  (call.op = "FromString" /\ call.text.valid) =>
    data = Unmarshal(schema, call.text, ZeroStruct(schema, Root)).v

(***************************************************************************)
(* C19.  A failed decode leaves the Corpus unchanged: after FromString of  *)
(* a text that is no JSON value, and after FromFile of a path that cannot  *)
(* be read, the Corpus is what it was when the call began.                 *)
(***************************************************************************)
C19_FailedDecodeKeeps ==
  (\/ call.op = "FromString" /\ ~call.text.valid
   \/ call.op = "FromFile" /\ ~(call.file \in DOMAIN fs /\ fs[call.file].exists))
    => data = old

\* A decode has failed on a Corpus that was not empty.
C19_Witness ==
  /\ \/ call.op = "FromString" /\ ~call.text.valid
     \/ call.op = "FromFile" /\ lib.read = "PathError"
  /\ old # ZeroStruct(schema, Root)
  /\ data = old

(***************************************************************************)
(* C20.  Within every record type the mapping from field to wire key is    *)
(* injective: no two fields of a struct declare the same key.              *)
(***************************************************************************)
C20_KeysInjective ==
  \A T \in DOMAIN schema.types :
    \A i, j \in DOMAIN Fields(schema, T) :
      i # j => Fields(schema, T)[i].key # Fields(schema, T)[j].key

(***************************************************************************)
(* Cross-references.  The texts in which one integer field, or one list of *)
(* integers, is written and nothing else of its Document: the id it holds  *)
(* names no Token, Sentence, Clause or Entity, for the Document has none.  *)
(* The caller decodes such a text and encodes the Corpus again.            *)
(***************************************************************************)
IntPaths(sch) ==
  {p \in RootPaths(sch) : FieldAt(sch, Root, p).kind \in {"int", "ints"}}

RefTexts(sch) ==
  {JohnText} \cup
  { Text(PathJSON(sch, Root, pn[1],
                  <<Member(FieldAt(sch, Root, pn[1]).key,
                           GoodJSON(FieldAt(sch, Root, pn[1]), pn[2]))>>, pn[2]))
    : pn \in IntPaths(sch) \X Lens }

InitRefs ==
  /\ rev \in Revisions
  /\ schema = SchemaOf(rev)
  /\ fs \in {("in.json" :> File(t)) : t \in RefTexts(schema)}
  /\ data = ZeroStruct(schema, Root)
  /\ old = ZeroStruct(schema, Root)
  /\ call = NoCall
  /\ lib = NoLib
  /\ ret = NoResult
  /\ copy = NoCopy
  /\ ncalls = 0
  /\ peer = NoPeer
  /\ tasks = NoTasks

NextRefs ==
  \/ \E fn \in DOMAIN fs : ncalls = 0 /\ FromString(fs[fn].text)
  \/ \E fn \in DOMAIN fs : ncalls = 0 /\ FromFile(fn)
  \/ \E fn \in DOMAIN fs : ncalls = 0 /\ loadJSON(fn)
  \/ ncalls = 1 /\ GetJSON

SpecRefs == InitRefs /\ [][NextRefs]_vars

\* The ids of entries of FrameNet, WordNet and VerbNet, which refer to
\* nothing of the Document.
External(f) == f.key \in {"frameID", "wordNetID", "verbNetID"}

\* Every integer field of the struct v, and of the records in it, holds
\* the number the object jv has under the field's key, and 0 or no
\* element when the object has not the key.
RECURSIVE IdsAsGiven(_, _, _, _)

IdsAsGiven(sch, T, jv, v) ==
  \A f \in FieldSet(sch, T) :
    LET has == jv.j = "obj" /\ KeyCount(jv, f.key) = 1
        c == IF has THEN ValueOf(jv, f.key) ELSE JNull
        x == v[f.name]
    IN  CASE f.kind = "int" ->
               IF has /\ c.j = "num"
               THEN External(f) \/ x = c.i
               ELSE x = 0
          [] f.kind = "ints" ->
               IF has /\ c.j = "arr"
               THEN x.e = [i \in DOMAIN c.a |-> c.a[i].i]
               ELSE Len(x.e) = 0
          [] f.kind = "struct" -> IdsAsGiven(sch, f.of, c, x)
          [] f.kind = "list" ->
               /\ Len(x.e) = (IF c.j = "arr" THEN Len(c.a) ELSE 0)
               /\ \A i \in DOMAIN x.e : IdsAsGiven(sch, f.of, c.a[i], x.e[i])
          [] OTHER -> TRUE

=============================================================================
